---- MODULE Spec2Model ----
(***************************************************************************)
(* A model of CiscoGenericSNMPAutoload (cisco_generic_snmp_autoload.py):   *)
(* one instance, its fields, and discover() run against a static snapshot  *)
(* of the device's SNMP tables.  Wire values are strings, as in the code;  *)
(* int(), str(), lower(), replace(), split() and re.search() over literal  *)
(* alternatives are computed on the strings.                               *)
(***************************************************************************)
EXTENDS Integers, Sequences, FiniteSets, TLC

(***************************************************************************)
(* Python string primitives.                                               *)
(***************************************************************************)

\* `sub in s` / re.search of a literal pattern
Contains(s, sub) ==
    \E i \in 1..(Len(s) - Len(sub) + 1) : SubSeq(s, i, i + Len(sub) - 1) = sub

\* re.search(r'a|b|c', s): some alternative occurs in s
ContainsAny(s, subs) == \E sub \in subs : Contains(s, sub)

UpperCase ==
    <<"A", "B", "C", "D", "E", "F", "G", "H", "I", "J", "K", "L", "M",
      "N", "O", "P", "Q", "R", "S", "T", "U", "V", "W", "X", "Y", "Z">>

LowerCase ==
    <<"a", "b", "c", "d", "e", "f", "g", "h", "i", "j", "k", "l", "m",
      "n", "o", "p", "q", "r", "s", "t", "u", "v", "w", "x", "y", "z">>

UpperLower ==
    [c \in {UpperCase[k] : k \in 1..Len(UpperCase)} |->
        LowerCase[CHOOSE k \in 1..Len(UpperCase) : UpperCase[k] = c]]

LowerChar(c) == IF c \in DOMAIN UpperLower THEN UpperLower[c] ELSE c

RECURSIVE Lower(_)
\* str.lower()
Lower(s) == IF s = "" THEN "" ELSE LowerChar(Head(s)) \o Lower(Tail(s))

\* re.search(pattern, s, re.IGNORECASE) for lower-case literal alternatives
ContainsAnyIgnoreCase(s, subs) == ContainsAny(Lower(s), subs)

RECURSIVE Remove(_, _)
\* s.replace(c, '') for a one-character c
Remove(s, c) ==
    IF s = "" THEN ""
    ELSE IF Head(s) = c THEN Remove(Tail(s), c) ELSE Head(s) \o Remove(Tail(s), c)

Digits == <<"0", "1", "2", "3", "4", "5", "6", "7", "8", "9">>

IsDigit(c) == \E k \in 1..10 : Digits[k] = c

DigitVal(c) == (CHOOSE k \in 1..10 : Digits[k] = c) - 1

AllDigits(s) == Len(s) > 0 /\ \A i \in 1..Len(s) : IsDigit(SubSeq(s, i, i))

\* int(s) succeeds: an optional sign and at least one digit
IsInt(s) ==
    IF Len(s) > 0 /\ Head(s) \in {"-", "+"} THEN AllDigits(Tail(s)) ELSE AllDigits(s)

RECURSIVE Nat10(_)
Nat10(s) ==
    IF s = "" THEN 0
    ELSE 10 * Nat10(SubSeq(s, 1, Len(s) - 1)) + DigitVal(SubSeq(s, Len(s), Len(s)))

\* int(s), for IsInt(s)
ToInt(s) ==
    IF Head(s) = "-" THEN 0 - Nat10(Tail(s))
    ELSE IF Head(s) = "+" THEN Nat10(Tail(s)) ELSE Nat10(s)

RECURSIVE NatStr(_)
NatStr(n) == IF n < 10 THEN Digits[n + 1] ELSE NatStr(n \div 10) \o Digits[(n % 10) + 1]

\* str(n)
ToStr(n) == IF n < 0 THEN "-" \o NatStr(0 - n) ELSE NatStr(n)

\* index of the last occurrence of the one-character c in s, 0 when absent
LastIndexOf(s, c) ==
    LET hits == {i \in 1..Len(s) : SubSeq(s, i, i) = c}
    IN IF hits = {} THEN 0 ELSE CHOOSE i \in hits : \A j \in hits : j <= i

\* s.split(c)[-1]
LastSegment(s, c) == SubSeq(s, LastIndexOf(s, c) + 1, Len(s))

\* c.join(s.split(c)[:-1]) followed by c; '' when c does not occur in s
UpToLastSep(s, c) == SubSeq(s, 1, LastIndexOf(s, c))

\* the longest run of digits at the start of s: re.search(r'^\d+', s)
LeadingDigits(s) ==
    LET n == CHOOSE k \in 0..Len(s) :
                 /\ \A i \in 1..k : IsDigit(SubSeq(s, i, i))
                 /\ (k < Len(s) => ~IsDigit(SubSeq(s, k + 1, k + 1)))
    IN SubSeq(s, 1, n)

\* the longest run of digits at the end of s: re.search(r'\d+$', s)
TrailingDigits(s) ==
    LET n == CHOOSE k \in 0..Len(s) :
                 /\ \A i \in (Len(s) - k + 1)..Len(s) : IsDigit(SubSeq(s, i, i))
                 /\ (k < Len(s) => ~IsDigit(SubSeq(s, Len(s) - k, Len(s) - k)))
    IN SubSeq(s, Len(s) - n + 1, Len(s))

RECURSIVE DigitRuns(_)
\* re.findall('\d+', s)
DigitRuns(s) ==
    IF s = "" THEN <<>>
    ELSE IF IsDigit(Head(s))
         THEN LET run == LeadingDigits(s)
              IN <<run>> \o DigitRuns(SubSeq(s, Len(run) + 1, Len(s)))
         ELSE DigitRuns(Tail(s))

RECURSIVE Join(_, _)
\* sep.join(parts)
Join(parts, sep) ==
    IF parts = <<>> THEN ""
    ELSE IF Len(parts) = 1 THEN parts[1]
    ELSE parts[1] \o sep \o Join(Tail(parts), sep)

(***************************************************************************)
(* Sequence helpers.                                                       *)
(***************************************************************************)

Range(seq) == {seq[i] : i \in 1..Len(seq)}

\* list.index-free membership test `x in list`
InList(x, seq) == x \in Range(seq)

\* list.remove(x): drops the first occurrence
RemoveFirst(seq, x) ==
    IF ~InList(x, seq) THEN seq
    ELSE LET k == CHOOSE i \in 1..Len(seq) : seq[i] = x /\ \A j \in 1..(i - 1) : seq[j] # x
         IN SubSeq(seq, 1, k - 1) \o SubSeq(seq, k + 1, Len(seq))

(***************************************************************************)
(* The device: a static snapshot of the SNMP tables the instance reads.    *)
(* A table is kept as a QualiMibTable (an OrderedDict): its keys in order  *)
(* and its rows.                                                           *)
(***************************************************************************)

Row(relpos, parent, class, vendor, descr, name) ==
    [entPhysicalParentRelPos |-> relpos, entPhysicalContainedIn |-> parent,
     entPhysicalClass |-> class, entPhysicalVendorType |-> vendor,
     entPhysicalDescr |-> descr, entPhysicalName |-> name]

EmptyTable == [keys |-> <<>>, rows |-> <<>>]

\* table[key] = row on an OrderedDict: a new key goes last
Put(table, key, row) ==
    [keys |-> IF InList(key, table.keys) THEN table.keys ELSE Append(table.keys, key),
     rows |-> [k \in Range(table.keys) \cup {key} |->
                  IF k = key THEN row ELSE table.rows[k]]]

\* QualiMibTable.filter_by_column(name, *values): the rows whose column `name`
\* holds one of `values`, in table order (the selection of lines 252 and 260-262)
RECURSIVE FilterKeys(_, _, _, _)
FilterKeys(keys, rows, name, values) ==
    IF keys = <<>> THEN <<>>
    ELSE (IF rows[Head(keys)][name] \in values THEN <<Head(keys)>> ELSE <<>>)
         \o FilterKeys(Tail(keys), rows, name, values)

filter_by_column(table, name, values) ==
    LET ks == FilterKeys(table.keys, table.rows, name, values)
    IN [keys |-> ks, rows |-> [k \in Range(ks) |-> table.rows[k]]]

\* sorted(..., key=int(row[name])): a stable insertion of key k into a sorted list
RECURSIVE InsertSorted(_, _, _, _)
InsertSorted(sorted, k, rows, name) ==
    IF sorted = <<>> THEN <<k>>
    ELSE IF ToInt(rows[k][name]) < ToInt(rows[Head(sorted)][name])
         THEN <<k>> \o sorted
         ELSE <<Head(sorted)>> \o InsertSorted(Tail(sorted), k, rows, name)

RECURSIVE SortKeys(_, _, _)
SortKeys(keys, rows, name) ==
    IF keys = <<>> THEN <<>>
    ELSE InsertSorted(SortKeys(SubSeq(keys, 1, Len(keys) - 1), rows, name),
                      keys[Len(keys)], rows, name)

\* QualiMibTable.sort_by_column(name): the table ordered by int(column), stably
sort_by_column(table, name) ==
    [keys |-> SortKeys(table.keys, table.rows, name), rows |-> table.rows]

Reverse(seq) == [i \in 1..Len(seq) |-> seq[Len(seq) + 1 - i]]

IfRow(descr, index) == [ifDescr |-> descr, suffix |-> ToStr(index)]

\* the IF-MIB ifDescr table of the snapshot: three ports and an aggregation group
IfTable ==
    [keys |-> <<1, 2, 3, 4>>,
     rows |-> <<IfRow("GigabitEthernet0/1", 1), IfRow("GigabitEthernet0/2", 2),
                IfRow("GigabitEthernet0/3", 3), IfRow("Port-channel1", 4)>>]

\* spec.md, Scenario A: chassis 1 (pos "0"), module 2 (parent 1, pos "1"),
\* port 3 (parent 2, pos "1") with a logical interface
ScenarioA ==
    [sysDescr |-> "Cisco IOS Software, Version 15.0(2)SE",
     ent |-> [keys |-> <<1, 2, 3>>,
              rows |-> <<Row("0", "0", "'chassis'", "cevChassisCat3750", "Catalyst 3750", "Switch 1"),
                         Row("1", "1", "'module'", "cevModuleCat3750", "Uplink module", "Module 1"),
                         Row("1", "2", "'port'", "cevPortGigE", "Gi0/1", "Gi0/1")>>],
     alias |-> <<"", "", "ifIndex.1">>,
     if_table |-> IfTable,
     cdp_table |-> EmptyTable,
     lldp_local_table |-> EmptyTable,
     lldp_remote_table |-> EmptyTable,
     ip_v4_table |-> EmptyTable,
     ip_v6_table |-> EmptyTable,
     port_channel_ports |-> EmptyTable]

\* a device with the inventory `ent` and the alias mappings `alias`
Device(keys, rows, alias) ==
    [ScenarioA EXCEPT !.ent = [keys |-> keys, rows |-> rows], !.alias = alias]

\* the largest relative position the inventories below give a row
MaxPos == 2

Positions == {ToStr(i) : i \in 1..MaxPos}

Chassis(relpos) == Row(relpos, "0", "'chassis'", "cevChassisCat3750", "Catalyst 3750", "Switch 1")

Slot(class, parent, relpos) ==
    IF class = "'module'"
    THEN Row(relpos, parent, class, "cevModuleCat3750", "Line card", "Module")
    ELSE Row(relpos, parent, class, "cevContainerSlot", "Slot", "Slot")

EthPort(parent, relpos, name) == Row(relpos, parent, "'port'", "cevPortGigE", name, name)

\* containment trees: a chassis, two slots (a module or a container each) and two
\* ports, over every choice of parents and relative positions
Trees ==
    {Device(<<1, 2, 3, 4, 5>>,
            <<Chassis("0"), Slot(c2, "1", p2), EthPort(par3, p3, "Gi0/1"),
              Slot(c4, par4, "1"), EthPort(par5, p5, "Gi0/2")>>,
            <<"", "", "ifIndex.1", "", "ifIndex.2">>) :
        c2 \in {"'module'", "'container'"}, p2 \in Positions,
        par3 \in {"1", "2"}, p3 \in Positions,
        c4 \in {"'module'", "'container'"}, par4 \in {"1", "2"},
        par5 \in {"2", "4"}, p5 \in Positions}

\* two modules with a port each, the rows read in the reverse order
Reversed ==
    {Device(<<5, 4, 3, 2, 1>>,
            <<Chassis("0"), Slot("'module'", "1", p2), EthPort("2", p3, "Gi0/1"),
              Slot("'module'", par4, "1"), EthPort(par5, p5, "Gi0/2")>>,
            <<"", "", "ifIndex.1", "", "ifIndex.2">>) :
        p2 \in Positions, p3 \in Positions, par4 \in {"1", "2"},
        par5 \in {"2", "4"}, p5 \in Positions}

\* what the loader may find in a row: valid, class to be inferred, fields
\* missing, a blacklisted vendor type, a class that is not structural
FirstRows ==
    {Chassis("0"), Chassis("-1"),
     Row("0", "0", "", "cevChassisCat3750", "Catalyst 3750", "Switch 1"),
     Row("", "0", "'chassis'", "cevChassisCat3750", "Catalyst 3750", "Switch 1"),
     Row("0", "", "'chassis'", "cevChassisCat3750", "Catalyst 3750", "Switch 1"),
     Row("0", "0", "'chassis'", "cevChassisFanTray", "Catalyst 3750", "Switch 1"),
     Row("0", "0", "'other'", "cevMisc", "Misc", "Misc"),
     Row("0", "0", "", "", "", "")}

\* loader cases: the first row, and a port row over names and descriptors that do
\* or do not match the exclusion pattern, mapped by alias or by descriptor
LoaderCases ==
    {Device(<<1, 2, 3>>,
            <<first, Slot("'module'", "1", "1"),
              Row("1", "2", class, "cevPortGigE", descr, name)>>,
            <<"", "", alias>>) :
        first \in FirstRows,
        class \in {"'port'", ""},
        name \in {"Gi0/1", "Management0", "mgmt0"},
        descr \in {"Gi0/1", "Voice port 0/1"},
        alias \in {"ifIndex.1", ""}}

\* the inventory table read back empty
NoRows == Device(<<>>, <<>>, <<>>)

\* a table of string-keyed rows, in the order given
Table(keys, rows) ==
    [keys |-> keys,
     rows |-> [k \in Range(keys) |-> rows[CHOOSE i \in 1..Len(keys) : keys[i] = k]]]

CdpRow(device, port) == [cdpCacheDeviceId |-> device, cdpCacheDevicePort |-> port]

CdpTables ==
    {EmptyTable,
     Table(<<"1.7">>, <<CdpRow("switch2", "Gi0/9")>>),
     Table(<<"2.7">>, <<CdpRow("switch3", "Gi0/8")>>),
     Table(<<"2.7", "1.7">>, <<CdpRow("switch3", "Gi0/8"), CdpRow("switch2", "Gi0/9")>>)}

LldpTables ==
    {<<EmptyTable, EmptyTable>>,
     <<Table(<<"1">>, <<[lldpLocPortDesc |-> "GigabitEthernet0/1"]>>),
       Table(<<"1">>, <<[lldpRemSysName |-> "switch4", lldpRemPortDesc |-> "Gi0/7"]>>)>>}

\* Scenario A with neighbours in the CDP cache and the LLDP tables
Neighbours ==
    {[ScenarioA EXCEPT !.cdp_table = cdp, !.lldp_local_table = lldp[1],
                       !.lldp_remote_table = lldp[2]] :
        cdp \in CdpTables, lldp \in LldpTables}

\* Scenario A on a device of another operating system
OtherOs == [ScenarioA EXCEPT !.sysDescr = "Juniper Networks, Inc. JUNOS 12.3R6"]

\* three ports of one module whose positions coincide or lie one offset apart
Crowded ==
    {Device(<<1, 2, 3, 4, 5>>,
            <<Chassis("0"), Slot("'module'", "1", "1"), EthPort("2", p3, "Gi0/1"),
              EthPort("2", p4, "Gi0/2"), EthPort("2", p5, "Gi0/3")>>,
            <<"", "", "ifIndex.1", "ifIndex.2", "ifIndex.3">>) :
        p3 \in {"1", "1001"}, p4 \in {"1", "1001"}, p5 \in {"1", "1001"}}

PowerSupply(parent, relpos) ==
    Row(relpos, parent, "'powerSupply'", "cevPowerSupplyAC", "AC power supply", "PS")

\* Scenario A with a power supply, a power supply inside it, and a member of the
\* aggregation group
Powered ==
    [Device(<<1, 2, 3, 4, 5>>,
            <<ScenarioA.ent.rows[1], ScenarioA.ent.rows[2], ScenarioA.ent.rows[3],
              PowerSupply("1", "1"), PowerSupply("4", "1")>>,
            <<"", "", "ifIndex.1", "", "">>)
     EXCEPT !.port_channel_ports = [keys |-> <<1>>,
                                    rows |-> <<[dot3adAggPortAttachedAggID |-> "4"]>>]]

\* a non-empty inventory none of whose rows is structural
Unclassified ==
    Device(<<1>>, <<Row("0", "0", "'other'", "cevMisc", "Misc", "Misc")>>, <<"">>)

\* a module in the bay at position 1 and a module on the chassis itself
Bays ==
    {Device(<<1, 2, 3, 4, 5, 6>>,
            <<Chassis("0"), Slot("'container'", "1", "1"), Slot("'module'", "2", "1"),
              EthPort("3", "1", "Gi0/1"), Slot("'module'", "1", p5),
              EthPort("5", "1", "Gi0/2")>>,
            <<"", "", "", "ifIndex.1", "", "ifIndex.2">>) :
        p5 \in {"1", "2"}}

\* two ports in the bay at position 1 and a module on the chassis itself
Shared ==
    {Device(<<1, 2, 3, 4, 5, 6>>,
            <<Chassis("0"), Slot("'container'", "1", "1"), EthPort("2", "1", "Gi0/1"),
              EthPort("2", "2", "Gi0/2"), Slot("'module'", "1", p5),
              EthPort("5", "1", "Gi0/3")>>,
            <<"", "", "ifIndex.1", "ifIndex.2", "", "ifIndex.3">>) :
        p5 \in {"1", "2"}}

\* two chassis, the second with a module and a port
Stacks ==
    {Device(<<1, 2, 3, 4>>,
            <<Chassis(p1), Chassis(p2), Slot("'module'", "2", "1"),
              EthPort("3", "1", "Gi0/1")>>,
            <<"", "", "", "ifIndex.1">>) :
        p1 \in {"-1", "1"}, p2 \in {"0", "2"}}

\* a module bay of the chassis
Bay(vendor, relpos) == Row(relpos, "1", "'container'", vendor, "Module bay", "Bay")

\* the index of the upper and of the lower module bay in DualBays
UpperBay == 2

LowerBay == 3

\* a chassis with an upper and a lower module bay: a module and a port in or
\* beside the upper bay, a module with a port in the lower bay, over the
\* positions of the two modules, the rows read in index order or in reverse
DualBays ==
    {Device(order,
            <<Chassis("0"), Bay("cevContainerUpperModuleBay", "1"),
              Bay("cevContainerLowerModuleBay", "2"),
              Slot("'module'", par4, p4), EthPort(par5, "1", "Gi0/1"),
              Slot("'module'", "3", p6), EthPort("6", "1", "Gi0/2")>>,
            <<"", "", "", "", "ifIndex.1", "", "ifIndex.2">>) :
        par4 \in {"1", "2"}, p4 \in Positions, par5 \in {"2", "4"}, p6 \in Positions,
        order \in {<<1, 2, 3, 4, 5, 6, 7>>, <<7, 6, 5, 4, 3, 2, 1>>}}

\* two ports of one module that resolve to the interface GigabitEthernet0/1, each
\* through entAliasMappingIdentifier or through the numbers of its descriptor
SameInterface ==
    {Device(order,
            <<Chassis("0"), Slot("'module'", "1", "1"), EthPort("2", "1", "Gi0/1"),
              EthPort("2", "2", "Gi0/1")>>,
            <<"", "", a3, a4>>) :
        a3 \in {"ifIndex.1", ""}, a4 \in {"ifIndex.1", ""},
        order \in {<<1, 2, 3, 4>>, <<4, 3, 2, 1>>}}

\* a transceiver module, whose vendor type matches module_exclude_pattern
Sfp(parent, relpos) ==
    Row(relpos, parent, "'module'", "cevSFP1000BaseT", "1000BaseT SFP", "Transceiver")

\* a line card with a transceiver that holds a port and a second transceiver,
\* which holds a port too
Transceivers ==
    {Device(<<1, 2, 3, 4, 5, 6>>,
            <<Chassis("0"), Slot("'module'", "1", "1"), Sfp(par3, p3),
              EthPort("3", p4, "Gi0/1"), Sfp("3", "1"), EthPort("5", "2", "Gi0/2")>>,
            <<"", "", "", "ifIndex.1", "", "ifIndex.2">>) :
        par3 \in {"1", "2"}, p3 \in Positions, p4 \in Positions}

IpRow(if_index) == [ipAdEntIfIndex |-> if_index]

\* IP-MIB ipAddrTable: one or two addresses, on interface 1 or on others
Ip4Tables ==
    {EmptyTable,
     Table(<<"10.0.0.1">>, <<IpRow("1")>>),
     Table(<<"10.0.0.1", "10.0.0.2">>, <<IpRow("1"), IpRow("2")>>),
     Table(<<"10.0.0.2", "10.0.0.1">>, <<IpRow("2"), IpRow("1")>>),
     Table(<<"10.0.0.1", "10.0.0.3">>, <<IpRow("1"), IpRow("1")>>),
     Table(<<"10.0.0.2", "10.0.0.4">>, <<IpRow("2"), IpRow("4")>>)}

\* IPV6-MIB ipv6AddrEntry
Ip6Tables ==
    {EmptyTable,
     Table(<<"2001:db8::1", "2001:db8::2">>, <<IpRow("1"), IpRow("2")>>),
     Table(<<"2001:db8::2", "2001:db8::1">>, <<IpRow("2"), IpRow("1")>>)}

\* Scenario A with addresses in the IPv4 and IPv6 address tables
Addressed ==
    {[ScenarioA EXCEPT !.ip_v4_table = v4, !.ip_v6_table = v6] :
        v4 \in Ip4Tables, v6 \in Ip6Tables}

AggRow(agg_id) == [dot3adAggPortAttachedAggID |-> agg_id]

\* IEEE8023-LAG-MIB dot3adAggPortAttachedAggID: interfaces 1 and 2 attached to the
\* aggregation group of if_table (interface 4), to group 14 or to no group
LagTables ==
    {Table(<<1, 2>>, <<AggRow(a1), AggRow(a2)>>) : a1 \in {"4", "14", "0"}, a2 \in {"4", "14"}}

\* Scenario A with members in the aggregation membership table
Aggregated == {[ScenarioA EXCEPT !.port_channel_ports = lag] : lag \in LagTables}

\* a port whose parent is a row the loader does not retain: a row of another
\* class, a module without a parent id, a module of a blacklisted vendor type
Detached ==
    {Device(<<1, 2, 3>>, <<Chassis("0"), row, EthPort("2", "1", "Gi0/1")>>,
            <<"", "", "ifIndex.1">>) :
        row \in {Row("1", "1", "'other'", "cevMisc", "Misc", "Misc"),
                 Row("1", "", "'module'", "cevModuleCat3750", "Line card", "Module"),
                 Row("1", "1", "'module'", "cevModuleFanTray", "Fan tray", "Module")}}

\* inventories whose parent ids form a cycle: the chassis inside its own module,
\* and two modules or two containers inside each other, with a port in the cycle
Cyclic ==
    {Device(<<1, 2, 3>>,
            <<Row("0", "2", "'chassis'", "cevChassisCat3750", "Catalyst 3750", "Switch 1"),
              Slot("'module'", "1", "1"), EthPort("2", "1", "Gi0/1")>>,
            <<"", "", "ifIndex.1">>)}
        \cup {Device(<<1, 2, 3, 4>>,
                     <<Chassis("0"), Slot(class, "3", "1"), Slot(class, "2", "1"),
                       EthPort("2", "1", "Gi0/1")>>,
                     <<"", "", "", "ifIndex.1">>) :
                  class \in {"'module'", "'container'"}}

Devices ==
    {ScenarioA, NoRows, Unclassified, OtherOs, Powered}
        \cup Trees \cup LoaderCases \cup Neighbours \cup Crowded
        \cup Bays \cup Shared \cup Stacks \cup Reversed \cup DualBays
        \cup SameInterface \cup Transceivers \cup Addressed \cup Aggregated
        \cup Detached \cup Cyclic

(***************************************************************************)
(* The instance: the fields __init__ sets, the tables _load_snmp_tables    *)
(* assigns, and the position of discover().                                *)
(***************************************************************************)

VARIABLES
    dev,                \* the device snapshot behind self.snmp
    pc,                 \* the stage discover() is at
    exclusion_list, _excluded_models, module_list, chassis_list, port_list,
    power_supply_list, relative_path, port_mapping, resources, attributes,
    loaded,             \* the table attributes _load_snmp_tables has assigned
    entity_table,       \* self.entity_table
    result_dict,        \* _get_entity_table's table under construction
    ent_pos,            \* _get_entity_table's position in physical_indexes.keys()
    lldp_consulted,     \* interface ids for which _get_adjacent entered the LLDP loop
    results             \* the outcome of every discover() call so far, in call order

\* CiscoHandlerBase: one call of apply_connectivity_changes or of reload
VARIABLES
    method,             \* the method of the handler that is called
    request,            \* apply_connectivity_changes: the request
    retries,            \* reload: the argument retries
    hpc,                \* the place the call is at
    actionResults,      \* apply_connectivity_changes: driver_response.actionResults
    retry,              \* reload: the local retry
    is_reloaded,        \* reload: the local is_reloaded
    probes,             \* reload: what each probe of the device gave, in order
    response            \* what the call returned or raised

handler == <<method, request, retries, hpc, actionResults, retry, is_reloaded, probes,
             response>>

fields == <<exclusion_list, _excluded_models, module_list, chassis_list, port_list,
            power_supply_list, relative_path, port_mapping, resources, attributes>>

vars == <<dev, pc, fields, loaded, entity_table, result_dict, ent_pos,
          lldp_consulted, results, handler>>

supported_os == <<"IOS", "CATOS">>

entity_table_black_list == <<"alarm", "fan", "sensor">>

port_exclude_pattern == {"serial", "stack", "engine", "management", "mgmt", "voice", "foreign"}

module_exclude_pattern == {"cevsfp"}

NoResponse == [outcome |-> "", error |-> "", value |-> ""]

\* the handler only builds the instance (discover_snmp) and calls discover()
HandlerIdle ==
    /\ method = "discover_snmp"
    /\ request = [text |-> "", actions |-> <<>>]
    /\ retries = 0
    /\ hpc = "idle"
    /\ actionResults = <<>>
    /\ retry = 0
    /\ is_reloaded = FALSE
    /\ probes = <<>>
    /\ response = NoResponse

Init ==
    /\ HandlerIdle
    /\ dev \in Devices
    /\ pc = "start"
    /\ exclusion_list = <<>>
    /\ _excluded_models = <<>>
    /\ module_list = <<>>
    /\ chassis_list = <<>>
    /\ port_list = <<>>
    /\ power_supply_list = <<>>
    /\ relative_path = <<>>
    /\ port_mapping = <<>>
    /\ resources = <<>>
    /\ attributes = <<>>
    /\ loaded = {}
    /\ entity_table = EmptyTable
    /\ result_dict = EmptyTable
    /\ ent_pos = 1
    /\ lldp_consulted = {}
    /\ results = <<>>

AutoLoadDetails(res, attrs) ==
    [outcome |-> "returned", error |-> "", resources |-> res, attributes |-> attrs]

Raised(e) == [outcome |-> "raised", error |-> e, resources |-> <<>>, attributes |-> <<>>]

\* an exception leaves discover(): nothing is returned
Raise(e) == pc' = "raised" /\ results' = Append(results, Raised(e))

\* a validation that accepts every system description
AnyOs(descr) == TRUE

\* _is_valid_device_os: re.search("(A|B)", sysDescr, re.IGNORECASE) finds a version
ValidOs(descr) ==
    \E k \in 1..Len(supported_os) : Contains(Lower(descr), Lower(supported_os[k]))

_is_valid_device_os ==
    /\ pc = "start"
    /\ IF ValidOs(dev.sysDescr)
       THEN pc' = "details" /\ UNCHANGED results
       ELSE Raise("Incompatible driver")
    /\ UNCHANGED <<handler, dev, fields, loaded, entity_table, result_dict, ent_pos, lldp_consulted>>

Attribute(addr, name, value) == [relative_address |-> addr, name |-> name, value |-> value]

\* _get_device_details: the root attributes are appended to self.attributes
_get_device_details ==
    /\ pc = "details"
    /\ attributes' = Append(attributes, Attribute("", "Vendor", "Cisco"))
    /\ pc' = "if_table"
    /\ UNCHANGED <<handler, dev, exclusion_list, _excluded_models, module_list, chassis_list,
                   port_list, power_supply_list, relative_path, port_mapping, resources,
                   loaded, entity_table, result_dict, ent_pos, lldp_consulted, results>>

\* dict[key] = value
SetKey(f, key, value) ==
    [k \in DOMAIN f \cup {key} |-> IF k = key THEN value ELSE f[k]]

\* dict.values()
Values(f) == {f[k] : k \in DOMAIN f}

\* _load_snmp_tables up to the call of _get_entity_table, and that method's first
\* lines: if_table is read, result_dict is created, physical_indexes is read
_load_snmp_tables ==
    /\ pc = "if_table"
    /\ loaded' = loaded \cup {"if_table"}
    /\ result_dict' = EmptyTable
    /\ ent_pos' = 1
    /\ pc' = "entity"
    /\ UNCHANGED <<handler, dev, fields, entity_table, lldp_consulted, results>>

\* the class _get_entity_table infers from the vendor type; '' when none applies
InferClass(vendor_type) ==
    LET v == Lower(vendor_type)
    IN IF Contains(v, "cevcontainer") THEN "container"
       ELSE IF Contains(v, "cevchassis") THEN "chassis"
       ELSE IF Contains(v, "cevmodule") THEN "module"
       ELSE IF Contains(v, "cevport") THEN "port"
       ELSE IF Contains(v, "cevpowersupply") THEN "powerSupply"
       ELSE ""

\* the ifTable index of a physical port: entAliasMappingIdentifier when it parses,
\* else the first interface whose ifDescr holds the descriptor's numbers; 0 is None
_get_mapping(port_index, port_descr) ==
    LET last == LastSegment(dev.alias[port_index], ".")
        if_table_re == Join(DigitRuns(port_descr), "/")
        keys == dev.if_table.keys
        hits == {k \in 1..Len(keys) : Contains(dev.if_table.rows[keys[k]].ifDescr, if_table_re)}
    IN IF IsInt(last) THEN ToInt(last)
       ELSE IF hits = {} THEN 0
       ELSE ToInt(dev.if_table.rows[keys[CHOOSE k \in hits : \A j \in hits : k <= j]].suffix)

\* a loader that takes no interface to be claimed
NeverClaimed(port_id) == FALSE

\* _get_entity_table, line 239: port_id in self.port_mapping.values()
Claimed(port_id) == port_id \in Values(port_mapping)

\* a loader that excludes no port
ExcludesNoPort(name, descr) == FALSE

\* re.search(self.port_exclude_pattern, name or descr, re.IGNORECASE)
PortExcluded(name, descr) ==
    \/ ContainsAnyIgnoreCase(name, port_exclude_pattern)
    \/ ContainsAnyIgnoreCase(descr, port_exclude_pattern)

Blacklisted(vendor_type) ==
    \E k \in 1..Len(entity_table_black_list) :
        Contains(Lower(vendor_type), entity_table_black_list[k])

StructuralClass(class) ==
    ContainsAny(class, {"stack", "chassis", "module", "port", "powerSupply",
                        "container", "backplane"})

\* _get_entity_table, line 187: the row has no relative position
NoParentRelPos(raw) == raw.entPhysicalParentRelPos = ""

\* a loader that takes every row to have a parent id
AnyContainedIn(raw) == FALSE

\* _get_entity_table, line 193: the row has no parent id
NoContainedIn(raw) == raw.entPhysicalContainedIn = ""

\* one iteration of _get_entity_table's loop over physical_indexes.keys()
_get_entity_table ==
    /\ pc = "entity"
    /\ ent_pos <= Len(dev.ent.keys)
    /\ LET index == dev.ent.keys[ent_pos]
           raw == dev.ent.rows[index]
           is_excluded == NoContainedIn(raw) \/ Blacklisted(raw.entPhysicalVendorType)
           no_vendor == raw.entPhysicalClass = "" /\ raw.entPhysicalVendorType = ""
           class == IF raw.entPhysicalClass = ""
                    THEN InferClass(raw.entPhysicalVendorType)
                    ELSE Remove(raw.entPhysicalClass, "'")
           temp_entity_table == [raw EXCEPT !.entPhysicalClass = class]
           classified == ~is_excluded /\ ~no_vendor
           port_id == _get_mapping(index, raw.entPhysicalDescr)
           is_port == /\ classified
                      /\ class = "port"
                      /\ ~PortExcluded(raw.entPhysicalName, raw.entPhysicalDescr)
                      /\ port_id # 0
                      /\ InList(port_id, dev.if_table.keys)
                      /\ ~Claimed(port_id)
       IN IF NoParentRelPos(raw)
          THEN /\ exclusion_list' = Append(exclusion_list, index)
               /\ UNCHANGED <<result_dict, chassis_list, port_mapping, port_list,
                              power_supply_list>>
          ELSE /\ exclusion_list' = IF NoContainedIn(raw)
                                    THEN Append(exclusion_list, index)
                                    ELSE exclusion_list
               /\ result_dict' = IF classified /\ StructuralClass(class)
                                 THEN Put(result_dict, index, temp_entity_table)
                                 ELSE result_dict
               /\ chassis_list' = IF classified /\ class = "chassis"
                                  THEN Append(chassis_list, index)
                                  ELSE chassis_list
               /\ port_mapping' = IF is_port THEN SetKey(port_mapping, index, port_id)
                                  ELSE port_mapping
               /\ port_list' = IF is_port THEN Append(port_list, index) ELSE port_list
               /\ power_supply_list' = IF classified /\ class = "powerSupply"
                                       THEN Append(power_supply_list, index)
                                       ELSE power_supply_list
    /\ ent_pos' = ent_pos + 1
    /\ UNCHANGED <<handler, dev, pc, _excluded_models, module_list, relative_path, resources,
                   attributes, loaded, entity_table, lldp_consulted, results>>

Ok(v) == [err |-> "", v |-> v]

Err(e) == [err |-> e, v |-> <<>>]

\* a pass that excludes one more row of the table each time it runs
ExcludesOneMore(elements, raw_entity_table, excl) ==
    LET left == {k \in 1..Len(raw_entity_table.keys) :
                    ~InList(raw_entity_table.keys[k], excl)}
    IN IF left = {} THEN Ok(excl)
       ELSE Ok(Append(excl, raw_entity_table.keys[CHOOSE k \in left :
                                                      \A j \in left : k <= j]))

\* the loop of _filter_entity_table over `elements`: the parent is read from
\* self.entity_table, which is not assigned before _get_entity_table returns
RECURSIVE FilterElements(_, _, _)
FilterElements(elements, raw_entity_table, excl) ==
    IF elements = <<>> THEN Ok(excl)
    ELSE LET element == Head(elements)
         IN IF "entity_table" \notin loaded THEN Err("AttributeError")
            ELSE IF ~InList(element, entity_table.keys) THEN Err("KeyError")
            ELSE IF ~IsInt(entity_table.rows[element].entPhysicalContainedIn)
                 THEN Err("ValueError")
            ELSE LET parent_id == ToInt(entity_table.rows[element].entPhysicalContainedIn)
                 IN FilterElements(Tail(elements), raw_entity_table,
                                   IF \/ ~InList(parent_id, raw_entity_table.keys)
                                      \/ InList(parent_id, excl)
                                   THEN Append(excl, element) ELSE excl)

\* a filter that walks every row of the table it is given
FilterEveryRow(raw_entity_table) ==
    FilterElements(
        Reverse(sort_by_column(raw_entity_table, "entPhysicalParentRelPos").keys),
        raw_entity_table, exclusion_list)

\* _filter_entity_table: filter_by_column('ContainedIn') is called with no value to
\* select, so `elements` holds the rows whose ContainedIn is one of no values
_filter_entity_table(raw_entity_table) ==
    LET elements == sort_by_column(
                        filter_by_column(raw_entity_table, "entPhysicalContainedIn", {}),
                        "entPhysicalParentRelPos").keys
    IN FilterElements(Reverse(elements), raw_entity_table, exclusion_list)

\* a loader that accepts an inventory without rows
AcceptsAnyTable(table) == FALSE

\* _load_snmp_tables, line 156: the loaded inventory has no rows
CannotLoad(table) == Len(table.keys) < 1

\* the end of _get_entity_table and the rest of _load_snmp_tables
_load_snmp_tables_finish ==
    /\ pc = "entity"
    /\ ent_pos > Len(dev.ent.keys)
    /\ LET filtered == _filter_entity_table(result_dict)
       IN IF filtered.err # ""
          THEN Raise(filtered.err) /\ UNCHANGED <<exclusion_list, entity_table, loaded>>
          ELSE /\ exclusion_list' = filtered.v
               /\ entity_table' = result_dict
               /\ IF CannotLoad(result_dict)
                  THEN /\ Raise("Cannot load entPhysicalTable. Autoload cannot continue")
                       /\ loaded' = loaded \cup {"entity_table"}
                  ELSE /\ pc' = "chassis"
                       /\ loaded' = loaded \cup
                              {"entity_table", "lldp_local_table", "lldp_remote_table",
                               "cdp_index_table", "cdp_table", "duplex_table",
                               "ip_v4_table", "ip_v6_table", "port_channel_ports"}
                       /\ UNCHANGED results
    /\ result_dict' = EmptyTable
    /\ UNCHANGED <<handler, dev, _excluded_models, module_list, chassis_list, port_list,
                   power_supply_list, relative_path, port_mapping, resources, attributes,
                   ent_pos, lldp_consulted>>

(***************************************************************************)
(* Ancestor walks.  A walk that recurses more often than the table has     *)
(* rows is in a parent cycle: Python ends it with a RuntimeError (maximum  *)
(* recursion depth exceeded).                                              *)
(***************************************************************************)

Depth == Len(entity_table.keys) + 1

\* int(self.entity_table[item_id]['entPhysicalContainedIn'])
ParentOf(item_id) == ToInt(entity_table.rows[item_id].entPhysicalContainedIn)

\* what reading the parent of item_id raises, '' when it succeeds
ParentErr(item_id) ==
    IF ~InList(item_id, entity_table.keys) THEN "KeyError"
    ELSE IF ~IsInt(entity_table.rows[item_id].entPhysicalContainedIn) THEN "ValueError"
    ELSE ""

\* an address-contributing id that is always the row's own position
OwnPosition(item_id, fuel) ==
    IF ParentErr(item_id) # "" THEN Err(ParentErr(item_id))
    ELSE Ok(entity_table.rows[item_id].entPhysicalParentRelPos)

RECURSIVE ResourceId(_, _)
ResourceId(item_id, fuel) ==
    IF fuel = 0 THEN Err("RuntimeError")
    ELSE IF ParentErr(item_id) # "" THEN Err(ParentErr(item_id))
    ELSE LET parent_id == ParentOf(item_id)
         IN IF parent_id > 0 /\ InList(parent_id, entity_table.keys)
            THEN IF ContainsAny(entity_table.rows[parent_id].entPhysicalClass,
                                {"container", "backplane"})
                 THEN Ok(entity_table.rows[parent_id].entPhysicalParentRelPos)
                 ELSE IF InList(parent_id, _excluded_models)
                      THEN ResourceId(parent_id, fuel - 1)
                      ELSE Ok(entity_table.rows[item_id].entPhysicalParentRelPos)
            ELSE Ok(entity_table.rows[item_id].entPhysicalParentRelPos)

_get_resource_id(item_id) == ResourceId(item_id, Depth)

RECURSIVE ModuleParents(_, _)
ModuleParents(module_id, fuel) ==
    IF fuel = 0 THEN Err("RuntimeError")
    ELSE IF ParentErr(module_id) # "" THEN Err(ParentErr(module_id))
    ELSE LET parent_id == ParentOf(module_id)
             up == ModuleParents(parent_id, fuel - 1)
         IN IF parent_id > 0 /\ InList(parent_id, entity_table.keys)
            THEN IF Contains(entity_table.rows[parent_id].entPhysicalClass, "module")
                 THEN IF up.err # "" THEN up ELSE Ok(<<parent_id>> \o up.v)
                 ELSE IF Contains(entity_table.rows[parent_id].entPhysicalClass, "chassis")
                      THEN Ok(<<>>)
                      ELSE up
            ELSE Ok(<<>>)

_get_module_parents(module_id) == ModuleParents(module_id, Depth)

\* get_relative_path over the relative_path map rp and the module list ml
RECURSIVE RelativePath(_, _, _, _)
RelativePath(item_id, rp, ml, fuel) ==
    IF fuel = 0 THEN Err("RuntimeError")
    ELSE IF InList(item_id, chassis_list)
         THEN IF item_id \in DOMAIN rp THEN Ok(rp[item_id]) ELSE Err("KeyError")
    ELSE IF ParentErr(item_id) # "" THEN Err(ParentErr(item_id))
    ELSE LET parent_id == ParentOf(item_id)
             result == IF InList(parent_id, ml) THEN _get_resource_id(parent_id) ELSE Ok("")
             up == RelativePath(parent_id, rp, ml, fuel - 1)
         IN IF parent_id \in DOMAIN rp THEN Ok(rp[parent_id])
            ELSE IF result.err # "" THEN result
            ELSE IF up.err # "" THEN up
            ELSE IF result.v # "" THEN Ok(up.v \o "/" \o result.v)
            ELSE up

get_relative_path(item_id, rp, ml) == RelativePath(item_id, rp, ml, Depth)

\* the offset _get_port_relative_path adds to a colliding last segment
CollisionOffset == 1000

\* _get_port_relative_path against the addresses already assigned (values)
\* a collision pass that steps by one
RECURSIVE StepsByOne(_, _)
StepsByOne(relative_id, values) ==
    IF relative_id \in values
    THEN StepsByOne(UpToLastSep(relative_id, "/")
                        \o ToStr(ToInt(LastSegment(relative_id, "/")) + 1),
                    values)
    ELSE Ok(relative_id)

\* a port address assigned without the collision pass
WithoutCollisionPass(relative_id, values) == Ok(relative_id)

RECURSIVE _get_port_relative_path(_, _)
_get_port_relative_path(relative_id, values) ==
    IF relative_id \in values
    THEN LET last == LastSegment(relative_id, "/")
         IN IF ~IsInt(last) THEN Err("ValueError")
            ELSE _get_port_relative_path(
                     UpToLastSep(relative_id, "/") \o ToStr(ToInt(last) + CollisionOffset),
                     values)
    ELSE Ok(relative_id)

\* a discover that assigns no chassis address
NoChassisPaths(todo, rp) == [err |-> "", rp |-> rp]

\* discover, lines 85-90: the chassis addresses
RECURSIVE ChassisPaths(_, _)
ChassisPaths(todo, rp) ==
    IF todo = <<>> THEN [err |-> "", rp |-> rp]
    ELSE LET chassis == Head(todo)
             chassis_id == _get_resource_id(chassis)
         IN IF InList(chassis, exclusion_list) THEN ChassisPaths(Tail(todo), rp)
            ELSE IF chassis_id.err # "" THEN [err |-> chassis_id.err, rp |-> rp]
            ELSE ChassisPaths(Tail(todo),
                              SetKey(rp, chassis,
                                     IF chassis_id.v = "-1" THEN "0" ELSE chassis_id.v))

\* a discover that goes on without a chassis
GoesOnWithoutChassis == FALSE

\* discover, line 81: no chassis was found
NoChassis == Len(chassis_list) < 1

\* discover, lines 81-90: without a chassis the empty result is returned, else
\* every chassis outside the exclusion list gets its address
discover_chassis ==
    /\ pc = "chassis"
    /\ IF NoChassis
       THEN /\ pc' = "done"
            /\ results' = Append(results, AutoLoadDetails(<<>>, <<>>))
            /\ UNCHANGED relative_path
       ELSE LET paths == ChassisPaths(chassis_list, relative_path)
            IN /\ relative_path' = paths.rp
               /\ IF paths.err # "" THEN Raise(paths.err)
                  ELSE pc' = "lower_bay" /\ UNCHANGED results
    /\ UNCHANGED <<handler, dev, exclusion_list, _excluded_models, module_list, chassis_list,
                   port_list, power_supply_list, port_mapping, resources, attributes,
                   loaded, entity_table, result_dict, ent_pos, lldp_consulted>>

\* the last container, in ParentRelPos order, whose vendor type holds `bay`; 0 is None
BayContainer(bay) ==
    LET containers == sort_by_column(
                          filter_by_column(entity_table, "entPhysicalClass", {"container"}),
                          "entPhysicalParentRelPos").keys
        hits == {k \in 1..Len(containers) :
                    Contains(Lower(dev.ent.rows[containers[k]].entPhysicalVendorType), bay)}
    IN IF hits = {} THEN 0 ELSE containers[CHOOSE k \in hits : \A j \in hits : j <= k]

\* a repair that moves the children and keeps their positions
ReparentInPlace(children, table, upper_container, child_upper_items_len) ==
    [keys |-> table.keys,
     rows |-> [k \in DOMAIN table.rows |->
                 IF InList(k, children)
                 THEN [table.rows[k] EXCEPT
                         !.entPhysicalContainedIn = ToStr(upper_container)]
                 ELSE table.rows[k]]]

\* a repair that leaves the children of the lower bay where they are
LeavesChildren(children, table, upper_container, child_upper_items_len) == table

\* the rows _filter_lower_bay_containers rewrites: the children of the lower bay
RECURSIVE Reparent(_, _, _, _)
Reparent(children, table, upper_container, child_upper_items_len) ==
    IF children = <<>> THEN table
    ELSE LET child == Head(children)
             row == table.rows[child]
         IN Reparent(Tail(children),
                     Put(table, child,
                         [row EXCEPT
                            !.entPhysicalContainedIn = ToStr(upper_container),
                            !.entPhysicalParentRelPos =
                                ToStr(child_upper_items_len
                                      + ToInt(row.entPhysicalParentRelPos))]),
                     upper_container, child_upper_items_len)

_filter_lower_bay_containers ==
    /\ pc = "lower_bay"
    /\ LET upper_container == BayContainer("uppermodulebay")
           lower_container == BayContainer("lowermodulebay")
           child_upper_items_len ==
               Len(filter_by_column(entity_table, "entPhysicalContainedIn",
                                    {ToStr(upper_container)}).keys)
           child_lower_items ==
               sort_by_column(filter_by_column(entity_table, "entPhysicalContainedIn",
                                               {ToStr(lower_container)}),
                              "entPhysicalParentRelPos").keys
       IN entity_table' = IF lower_container # 0 /\ upper_container # 0
                          THEN Reparent(child_lower_items, entity_table, upper_container,
                                        child_upper_items_len)
                          ELSE entity_table
    /\ pc' = "module_list"
    /\ UNCHANGED <<handler, dev, fields, loaded, result_dict, ent_pos, lldp_consulted, results>>

\* get_module_list, the inner loop over the module ancestors of one port
RECURSIVE ModuleListOfPort(_, _, _)
ModuleListOfPort(modules, ml, exm) ==
    IF modules = <<>> THEN [ml |-> ml, exm |-> exm]
    ELSE LET module == Head(modules)
             vendor_type == dev.ent.rows[module].entPhysicalVendorType
         IN IF InList(module, ml) THEN ModuleListOfPort(Tail(modules), ml, exm)
            ELSE IF ~ContainsAny(Lower(vendor_type), module_exclude_pattern)
                 THEN ModuleListOfPort(Tail(modules),
                                       IF ~InList(module, exclusion_list) /\ ~InList(module, ml)
                                       THEN Append(ml, module) ELSE ml,
                                       exm)
                 ELSE ModuleListOfPort(Tail(modules), ml, Append(exm, module))

\* get_module_list, the loop over self.port_list
RECURSIVE ModuleList(_, _, _)
ModuleList(ports, ml, exm) ==
    IF ports = <<>> THEN [err |-> "", ml |-> ml, exm |-> exm]
    ELSE LET modules == _get_module_parents(Head(ports))
             one == ModuleListOfPort(modules.v, ml, exm)
         IN IF modules.err # "" THEN [err |-> modules.err, ml |-> ml, exm |-> exm]
            ELSE ModuleList(Tail(ports), one.ml, one.exm)

get_module_list ==
    /\ pc = "module_list"
    /\ LET r == ModuleList(port_list, module_list, _excluded_models)
       IN /\ module_list' = r.ml
          /\ _excluded_models' = r.exm
          /\ IF r.err # "" THEN Raise(r.err)
             ELSE pc' = "relative_paths" /\ UNCHANGED results
    /\ UNCHANGED <<handler, dev, exclusion_list, chassis_list, port_list, power_supply_list,
                   relative_path, port_mapping, resources, attributes, loaded,
                   entity_table, result_dict, ent_pos, lldp_consulted>>

\* add_relative_paths, the loop over the copy of self.module_list
RECURSIVE AddModulePaths(_, _, _)
AddModulePaths(todo, rp, ml) ==
    IF todo = <<>> THEN [err |-> "", rp |-> rp, ml |-> ml]
    ELSE LET module == Head(todo)
             path == get_relative_path(module, rp, ml)
             id == _get_resource_id(module)
         IN IF InList(module, exclusion_list)
            THEN AddModulePaths(Tail(todo), rp, RemoveFirst(ml, module))
            ELSE IF path.err # "" THEN [err |-> path.err, rp |-> rp, ml |-> ml]
            ELSE IF id.err # "" THEN [err |-> id.err, rp |-> rp, ml |-> ml]
            ELSE AddModulePaths(Tail(todo), SetKey(rp, module, path.v \o "/" \o id.v), ml)

\* add_relative_paths, the loop over the copy of self.port_list
RECURSIVE AddPortPaths(_, _, _, _)
AddPortPaths(todo, rp, ml, pl) ==
    IF todo = <<>> THEN [err |-> "", rp |-> rp, pl |-> pl]
    ELSE LET port == Head(todo)
             path == get_relative_path(port, rp, ml)
             id == _get_resource_id(port)
             final == _get_port_relative_path(path.v \o "/" \o id.v, Values(rp))
         IN IF InList(port, exclusion_list)
            THEN AddPortPaths(Tail(todo), rp, ml, RemoveFirst(pl, port))
            ELSE IF path.err # "" THEN [err |-> path.err, rp |-> rp, pl |-> pl]
            ELSE IF id.err # "" THEN [err |-> id.err, rp |-> rp, pl |-> pl]
            ELSE IF final.err # "" THEN [err |-> final.err, rp |-> rp, pl |-> pl]
            ELSE AddPortPaths(Tail(todo), SetKey(rp, port, final.v), ml, pl)

add_relative_paths ==
    /\ pc = "relative_paths"
    /\ LET m == AddModulePaths(module_list, relative_path, module_list)
           p == AddPortPaths(port_list, m.rp, m.ml, port_list)
       IN IF m.err # ""
          THEN /\ Raise(m.err)
               /\ relative_path' = m.rp
               /\ module_list' = m.ml
               /\ UNCHANGED port_list
          ELSE /\ relative_path' = p.rp
               /\ module_list' = m.ml
               /\ port_list' = p.pl
               /\ IF p.err # "" THEN Raise(p.err)
                  ELSE pc' = "chassis_attributes" /\ UNCHANGED results
    /\ UNCHANGED <<handler, dev, exclusion_list, _excluded_models, chassis_list, power_supply_list,
                   port_mapping, resources, attributes, loaded, entity_table, result_dict,
                   ent_pos, lldp_consulted>>

(***************************************************************************)
(* Resource assembly.  A resource descriptor keeps its category, name and  *)
(* address; of the attribute records, those whose value the instance       *)
(* computes are kept (model, adjacency, IP addresses, associated ports).   *)
(***************************************************************************)

Resource(category, name, addr) ==
    [category |-> category, name |-> name, relative_address |-> addr]

\* _get_chassis_attributes, the loop over chassis_list
RECURSIVE ChassisAttributes(_, _, _)
ChassisAttributes(todo, res, attrs) ==
    IF todo = <<>> THEN [err |-> "", res |-> res, attrs |-> attrs]
    ELSE LET chassis == Head(todo)
         IN IF chassis \notin DOMAIN relative_path
            THEN [err |-> "KeyError", res |-> res, attrs |-> attrs]
            ELSE LET chassis_id == relative_path[chassis]
                 IN ChassisAttributes(
                        Tail(todo),
                        Append(res, Resource("chassis", "Chassis " \o chassis_id, chassis_id)),
                        Append(attrs, Attribute(chassis_id, "Model",
                                                entity_table.rows[chassis].entPhysicalDescr)))

_get_chassis_attributes ==
    /\ pc = "chassis_attributes"
    /\ LET r == ChassisAttributes(chassis_list, resources, attributes)
       IN /\ resources' = r.res
          /\ attributes' = r.attrs
          /\ IF r.err # "" THEN Raise(r.err)
             ELSE pc' = "ports_attributes" /\ UNCHANGED results
    /\ UNCHANGED <<handler, dev, exclusion_list, _excluded_models, module_list, chassis_list,
                   port_list, power_supply_list, relative_path, port_mapping, loaded,
                   entity_table, result_dict, ent_pos, lldp_consulted>>

\* Python values of different types are never equal
PyStr(s) == [type |-> "str", val |-> s]

PyInt(n) == [type |-> "int", val |-> n]

PyEq(a, b) == a.type = b.type /\ a.val = b.val

\* _get_adjacent, the loop over cdp_table: the last matching row wins
RECURSIVE CdpAdjacent(_, _, _)
CdpAdjacent(keys, interface_id, result) ==
    IF keys = <<>> THEN Ok(result)
    ELSE LET key == Head(keys)
             value == dev.cdp_table.rows[key]
         IN IF {"cdpCacheDeviceId", "cdpCacheDevicePort"} \subseteq DOMAIN value
            THEN IF LeadingDigits(key) = "" THEN Err("AttributeError")
                 ELSE CdpAdjacent(Tail(keys), interface_id,
                                  IF PyEq(PyStr(LeadingDigits(key)), interface_id)
                                  THEN value.cdpCacheDeviceId \o " through "
                                       \o value.cdpCacheDevicePort
                                  ELSE result)
            ELSE CdpAdjacent(Tail(keys), interface_id, result)

\* _get_adjacent, the loop over lldp_local_table
RECURSIVE LldpAdjacent(_, _, _)
LldpAdjacent(keys, interface_name, result) ==
    IF keys = <<>> \/ interface_name = "" THEN Ok(result)
    ELSE LET key == Head(keys)
             value == dev.lldp_local_table.rows[key]
             remote == dev.lldp_remote_table
         IN IF /\ "lldpLocPortDesc" \in DOMAIN value
               /\ Contains(value.lldpLocPortDesc, interface_name)
               /\ InList("lldpRemSysName", remote.keys)
               /\ InList("lldpRemPortDesc", remote.keys)
            THEN IF ~InList(key, remote.keys) THEN Err("KeyError")
                 ELSE LldpAdjacent(Tail(keys), interface_name,
                                   remote.rows[key].lldpRemSysName \o " through "
                                   \o remote.rows[key].lldpRemPortDesc)
            ELSE LldpAdjacent(Tail(keys), interface_name, result)

\* whether _get_adjacent goes on to the LLDP tables after the CDP loop gave `cdp`
ConsultsLldp(cdp) == cdp.err = "" /\ cdp.v = "" /\ dev.lldp_remote_table.keys # <<>>

\* _get_adjacent(interface_id), interface_id being the int kept in port_mapping
_get_adjacent(interface_id) ==
    LET cdp == CdpAdjacent(dev.cdp_table.keys, PyInt(interface_id), "")
    IN IF ConsultsLldp(cdp)
       THEN LldpAdjacent(dev.lldp_local_table.keys,
                         dev.if_table.rows[interface_id].ifDescr, cdp.v)
       ELSE cdp

\* _get_ip_interface_details for one table: the loop breaks after its first row
IpAddress(table, port_index) ==
    IF table.keys # <<>> /\ Len(table.keys) > 1
    THEN LET key == table.keys[1]
             value == table.rows[key]
         IN IF "ipAdEntIfIndex" \in DOMAIN value
            THEN IF ~IsInt(value.ipAdEntIfIndex) THEN Err("ValueError")
                 ELSE IF ToInt(value.ipAdEntIfIndex) = port_index THEN Ok(key) ELSE Ok("")
            ELSE Ok("")
    ELSE Ok("")

\* the two attribute records of _get_ip_interface_details at address addr
IpAttributes(addr, port_index) ==
    <<Attribute(addr, "IPv4 Address", IpAddress(dev.ip_v4_table, port_index).v),
      Attribute(addr, "IPv6 Address", IpAddress(dev.ip_v6_table, port_index).v)>>

IpErr(port_index) ==
    IF IpAddress(dev.ip_v4_table, port_index).err # ""
    THEN IpAddress(dev.ip_v4_table, port_index).err
    ELSE IpAddress(dev.ip_v6_table, port_index).err

\* _get_ports_attributes, the loop over self.port_list
RECURSIVE PortsAttributes(_, _, _, _)
PortsAttributes(todo, res, attrs, lldp) ==
    IF todo = <<>> THEN [err |-> "", res |-> res, attrs |-> attrs, lldp |-> lldp]
    ELSE LET port == Head(todo)
             if_index == port_mapping[port]
             if_name == Remove(dev.if_table.rows[if_index].ifDescr, "'")
             interface_name == IF if_name = "" THEN entity_table.rows[port].entPhysicalName
                               ELSE if_name
             cdp == CdpAdjacent(dev.cdp_table.keys, PyInt(if_index), "")
             adjacent == _get_adjacent(if_index)
             lldp2 == IF ConsultsLldp(cdp) THEN lldp \cup {if_index} ELSE lldp
             failed(e) == [err |-> e, res |-> res, attrs |-> attrs, lldp |-> lldp2]
         IN IF interface_name = "" THEN PortsAttributes(Tail(todo), res, attrs, lldp)
            ELSE IF adjacent.err # "" THEN failed(adjacent.err)
            ELSE IF IpErr(if_index) # "" THEN failed(IpErr(if_index))
            ELSE IF port \notin DOMAIN relative_path THEN failed("KeyError")
            ELSE PortsAttributes(
                     Tail(todo),
                     Append(res, Resource("port", interface_name, relative_path[port])),
                     attrs \o <<Attribute(relative_path[port], "Adjacent", adjacent.v)>>
                           \o IpAttributes(relative_path[port], if_index),
                     lldp2)

_get_ports_attributes ==
    /\ pc = "ports_attributes"
    /\ LET r == PortsAttributes(port_list, resources, attributes, lldp_consulted)
       IN /\ resources' = r.res
          /\ attributes' = r.attrs
          /\ lldp_consulted' = r.lldp
          /\ IF r.err # "" THEN Raise(r.err)
             ELSE pc' = "module_attributes" /\ UNCHANGED results
    /\ UNCHANGED <<handler, dev, exclusion_list, _excluded_models, module_list, chassis_list,
                   port_list, power_supply_list, relative_path, port_mapping, loaded,
                   entity_table, result_dict, ent_pos>>

CountChar(s, c) == Cardinality({i \in 1..Len(s) : SubSeq(s, i, i) = c})

\* module descriptors put in front of the descriptors collected so far
RECURSIVE ModulesInFront(_, _)
ModulesInFront(todo, res) ==
    IF todo = <<>> THEN [err |-> "", res |-> res]
    ELSE ModulesInFront(Tail(todo),
                        <<Resource("module", "Module", relative_path[Head(todo)])>> \o res)

\* _get_module_attributes, the loop over self.module_list
RECURSIVE ModuleAttributes(_, _)
ModuleAttributes(todo, res) ==
    IF todo = <<>> THEN [err |-> "", res |-> res]
    ELSE LET module == Head(todo)
             module_index == _get_resource_id(module)
         IN IF module \notin DOMAIN relative_path THEN [err |-> "KeyError", res |-> res]
            ELSE IF module_index.err # "" THEN [err |-> module_index.err, res |-> res]
            ELSE LET module_id == relative_path[module]
                     module_name ==
                         IF Contains(module_id, "/") /\ CountChar(module_id, "/") + 1 < 3
                         THEN "Module " \o module_index.v
                         ELSE "Sub Module " \o module_index.v
                 IN ModuleAttributes(Tail(todo),
                                     Append(res, Resource("module", module_name, module_id)))

_get_module_attributes ==
    /\ pc = "module_attributes"
    /\ LET r == ModuleAttributes(module_list, resources)
       IN /\ resources' = r.res
          /\ IF r.err # "" THEN Raise(r.err)
             ELSE pc' = "power_ports" /\ UNCHANGED results
    /\ UNCHANGED <<handler, dev, exclusion_list, _excluded_models, module_list, chassis_list,
                   port_list, power_supply_list, relative_path, port_mapping, attributes,
                   loaded, entity_table, result_dict, ent_pos, lldp_consulted>>

\* what reading entity_table[parent of item]['entPhysicalParentRelPos'] as an int raises
ParentRowErr(item_id) ==
    IF ParentErr(item_id) # "" THEN ParentErr(item_id)
    ELSE IF ~InList(ParentOf(item_id), entity_table.keys) THEN "KeyError"
    ELSE ""

\* _filter_power_port_list: a power supply inside a listed power supply is dropped
RECURSIVE FilterPowerPorts(_, _)
FilterPowerPorts(todo, psl) ==
    IF todo = <<>> THEN [err |-> "", psl |-> psl]
    ELSE LET power_port == Head(todo)
             parent_index == ParentOf(power_port)
         IN IF ParentRowErr(power_port) # ""
            THEN [err |-> ParentRowErr(power_port), psl |-> psl]
            ELSE FilterPowerPorts(
                     Tail(todo),
                     IF /\ Contains(entity_table.rows[parent_index].entPhysicalClass,
                                    "powerSupply")
                        /\ InList(parent_index, psl)
                     THEN RemoveFirst(psl, power_port) ELSE psl)

\* _get_power_ports, the loop over the filtered list psl from position k on
RECURSIVE PowerPorts(_, _, _)
PowerPorts(k, psl, res) ==
    IF k > Len(psl) THEN [err |-> "", res |-> res]
    ELSE LET port == psl[k]
             port_id == entity_table.rows[port].entPhysicalParentRelPos
             parent_index == ParentOf(port)
             parent_pos == entity_table.rows[parent_index].entPhysicalParentRelPos
             chassis_id == get_relative_path(parent_index, relative_path, module_list)
             first == CHOOSE i \in 1..Len(psl) : psl[i] = port /\ \A j \in 1..(i - 1) : psl[j] # port
         IN IF ParentRowErr(port) # "" THEN [err |-> ParentRowErr(port), res |-> res]
            ELSE IF ~IsInt(parent_pos) THEN [err |-> "ValueError", res |-> res]
            ELSE IF chassis_id.err # "" THEN [err |-> chassis_id.err, res |-> res]
            ELSE PowerPorts(k + 1, psl,
                            Append(res, Resource("power_port", "PP" \o ToStr(first - 1),
                                                 chassis_id.v \o "/PP"
                                                 \o ToStr(ToInt(parent_pos)) \o "-" \o port_id)))

_get_power_ports ==
    /\ pc = "power_ports"
    /\ LET f == FilterPowerPorts(power_supply_list, power_supply_list)
           r == PowerPorts(1, f.psl, resources)
       IN /\ power_supply_list' = f.psl
          /\ IF f.err # "" THEN Raise(f.err) /\ UNCHANGED resources
             ELSE /\ resources' = r.res
                  /\ IF r.err # "" THEN Raise(r.err)
                     ELSE pc' = "port_channels" /\ UNCHANGED results
    /\ UNCHANGED <<handler, dev, exclusion_list, _excluded_models, module_list, chassis_list,
                   port_list, relative_path, port_mapping, attributes, loaded,
                   entity_table, result_dict, ent_pos, lldp_consulted>>

RECURSIVE Replace(_, _, _)
\* s.replace(c, d) for a one-character c
Replace(s, c, d) ==
    IF s = "" THEN ""
    ELSE (IF Head(s) = c THEN d ELSE Head(s)) \o Replace(Tail(s), c, d)

RECURSIVE Strip(_)
\* s.strip(' \t\n\r') on strings whose only white space is the blank
Strip(s) ==
    IF s = "" THEN ""
    ELSE IF Head(s) = " " THEN Strip(Tail(s))
    ELSE IF SubSeq(s, Len(s), Len(s)) = " " THEN Strip(SubSeq(s, 1, Len(s) - 1))
    ELSE s

\* _get_associated_ports, the loop over port_channel_ports
RECURSIVE AssociatedPorts(_, _, _)
AssociatedPorts(keys, item_id, result) ==
    IF keys = <<>> THEN Ok(Strip(result))
    ELSE LET key == Head(keys)
             value == dev.port_channel_ports.rows[key]
         IN IF Contains(value.dot3adAggPortAttachedAggID, ToStr(item_id))
            THEN IF ~InList(key, dev.if_table.keys) THEN Err("KeyError")
                 ELSE AssociatedPorts(
                          Tail(keys), item_id,
                          result \o Remove(Replace(dev.if_table.rows[key].ifDescr, "/", "-"), " ")
                                 \o "; ")
            ELSE AssociatedPorts(Tail(keys), item_id, result)

_get_associated_ports(item_id) == AssociatedPorts(dev.port_channel_ports.keys, item_id, "")

\* _get_port_channels, the loop over the channel interfaces of if_table
RECURSIVE PortChannels(_, _, _)
PortChannels(keys, res, attrs) ==
    IF keys = <<>> THEN [err |-> "", res |-> res, attrs |-> attrs]
    ELSE LET key == Head(keys)
             interface_model == dev.if_table.rows[key].ifDescr
             interface_id == "PC" \o TrailingDigits(interface_model)
             associated_ports == _get_associated_ports(key)
             failed(e) == [err |-> e, res |-> res, attrs |-> attrs]
         IN IF ~(Contains(interface_model, "channel") /\ ~Contains(interface_model, "."))
               \/ TrailingDigits(interface_model) = ""
            THEN PortChannels(Tail(keys), res, attrs)
            ELSE IF associated_ports.err # "" THEN failed(associated_ports.err)
            ELSE IF IpErr(key) # "" THEN failed(IpErr(key))
            ELSE PortChannels(
                     Tail(keys),
                     Append(res, Resource("port_channel", interface_model, interface_id)),
                     attrs \o <<Attribute(interface_id, "Associated Ports", associated_ports.v)>>
                           \o IpAttributes(interface_id, key))

_get_port_channels ==
    /\ pc = "port_channels"
    /\ LET r == PortChannels(dev.if_table.keys, resources, attributes)
       IN /\ resources' = r.res
          /\ attributes' = r.attrs
          /\ IF r.err # "" THEN Raise(r.err)
             ELSE pc' = "return" /\ UNCHANGED results
    /\ UNCHANGED <<handler, dev, exclusion_list, _excluded_models, module_list, chassis_list,
                   port_list, power_supply_list, relative_path, port_mapping, loaded,
                   entity_table, result_dict, ent_pos, lldp_consulted>>

\* discover, lines 101-119: the result holds self.resources and self.attributes
discover_return ==
    /\ pc = "return"
    /\ results' = Append(results, AutoLoadDetails(resources, attributes))
    /\ pc' = "done"
    /\ UNCHANGED <<handler, dev, fields, loaded, entity_table, result_dict, ent_pos, lldp_consulted>>

\* how many times discover() is called on the one instance
MaxRuns == 2

\* discover() is called again on the same instance, against the same snapshot
discover_again ==
    /\ pc \in {"done", "raised"}
    /\ Len(results) < MaxRuns
    /\ pc' = "start"
    /\ UNCHANGED <<handler, dev, fields, loaded, entity_table, result_dict, ent_pos, lldp_consulted,
                   results>>

Next ==
    \/ _is_valid_device_os
    \/ _get_device_details
    \/ _load_snmp_tables
    \/ _get_entity_table
    \/ _load_snmp_tables_finish
    \/ discover_chassis
    \/ _filter_lower_bay_containers
    \/ get_module_list
    \/ add_relative_paths
    \/ _get_chassis_attributes
    \/ _get_ports_attributes
    \/ _get_module_attributes
    \/ _get_power_ports
    \/ _get_port_channels
    \/ discover_return

\* one instance on which discover() is called repeatedly
SpecRerun == Init /\ [][Next \/ discover_again]_vars

Spec == Init /\ [][Next]_vars

(***************************************************************************)
(* CiscoHandlerBase.apply_connectivity_changes and CiscoHandlerBase.reload. *)
(* An action of a request is the set of attributes it carries, its type,    *)
(* and the arguments of the exception add_vlan or remove_vlan raises for    *)
(* it (<<>> when the device accepts the change).  A probe of the device     *)
(* gives output, no output, or raises.                                      *)
(***************************************************************************)

\* the largest number of actions in a request
MaxActions == 3

\* the largest value of the argument retries
MaxRetries == 3

\* the requests: an empty text, or a decoded request of up to MaxActions actions
Requests ==
    LET all == {"type", "actionId", "connectionParams", "mode", "actionTarget",
                "fullAddress", "fullName", "vlanServiceAttributes"}
        raised == {<<>>, <<"Interface was not found">>,
                   <<"Cisco OS", "Failed to assign Vlan, Command rejected">>}
        kinds == {[type |-> t, attrs |-> all, raises |-> e] :
                      t \in {"setVlan", "removeVlan"}, e \in raised}
                 \cup {[type |-> "getVlan", attrs |-> all, raises |-> <<>>],
                       [type |-> "setVlan", attrs |-> all \ {"mode"}, raises |-> <<>>],
                       [type |-> "setVlan", attrs |-> all \ {"connectionParams", "mode",
                                                             "vlanServiceAttributes"},
                        raises |-> <<>>],
                       [type |-> "getVlan", attrs |-> all \ {"fullName"}, raises |-> <<>>]}
    IN {[text |-> "", actions |-> <<>>]}
           \cup {[text |-> "json", actions |-> a] :
                    a \in UNION {[1..n -> kinds] : n \in 0..MaxActions}}

\* _validate_request_action: what it raises for the action, "" when it returns;
\* getattr on the first name of a pair fails when the action lacks it
_validate_request_action(action) ==
    LET required == <<<<"type">>, <<"actionId">>, <<"connectionParams", "mode">>,
                      <<"actionTarget", "fullAddress">>>>
        broken == {k \in 1..Len(required) :
                      Len(required[k]) = 2 /\ required[k][1] \notin action.attrs}
        failed == {k \in 1..Len(required) :
                      required[k][Len(required[k])] \notin action.attrs}
    IN IF broken # {} THEN "AttributeError"
       ELSE IF failed # {}
            THEN LET last == CHOOSE k \in failed : \A j \in failed : j <= k
                 IN "Mandatory field " \o required[last][Len(required[last])]
                        \o " is missing in ApplyConnectivityChanges request json"
            ELSE ""

\* apply_connectivity_changes, the loop over holder.driverRequest.actions from
\* the k-th action on; the actionId of an action is its place in the request;
\* e.message is the argument of an exception that has one, and '' otherwise
RECURSIVE ActionResults(_, _, _)
ActionResults(actions, k, done) ==
    IF k > Len(actions) THEN [err |-> "", results |-> done]
    ELSE LET action == actions[k]
             invalid == _validate_request_action(action)
             message == IF Len(action.raises) = 1 THEN action.raises[1] ELSE ""
             action_result ==
                 [type |-> action.type, actionId |-> k,
                  infoMessage |-> IF action.raises = <<>>
                                  THEN "Vlan Configuration Completed" ELSE "",
                  errorMessage |-> message,
                  success |-> action.raises = <<>>]
         IN IF invalid # "" THEN [err |-> invalid, results |-> done]
            ELSE IF "fullName" \notin action.attrs
                 THEN [err |-> "AttributeError", results |-> done]
            ELSE IF action.type = "setVlan" /\ "vlanServiceAttributes" \notin action.attrs
                 THEN [err |-> "AttributeError", results |-> done]
            ELSE IF action.type \in {"setVlan", "removeVlan"}
                 THEN ActionResults(actions, k + 1, Append(done, action_result))
                 ELSE ActionResults(actions, k + 1, done)

apply_connectivity_changes ==
    /\ method = "apply_connectivity_changes"
    /\ hpc = "call"
    /\ LET r == ActionResults(request.actions, 1, <<>>)
       IN IF request.text = ""
          THEN /\ hpc' = "raised"
               /\ response' = [NoResponse EXCEPT !.outcome = "raised",
                                                 !.error = "request is None or empty"]
               /\ UNCHANGED actionResults
          ELSE IF r.err # ""
               THEN /\ hpc' = "raised"
                    /\ response' = [NoResponse EXCEPT !.outcome = "raised", !.error = r.err]
                    /\ UNCHANGED actionResults
               ELSE /\ hpc' = "returned"
                    /\ actionResults' = r.results
                    /\ response' = [NoResponse EXCEPT !.outcome = "returned",
                                                      !.value = "DriverResponseRoot"]
    /\ UNCHANGED <<dev, pc, fields, loaded, entity_table, result_dict, ent_pos,
                   lldp_consulted, results, method, request, retries, retry, is_reloaded,
                   probes>>

\* reload up to the loop: the reload command is sent and confirmed, or one of
\* the send_command calls raises
reload ==
    /\ method = "reload"
    /\ hpc = "call"
    /\ \E sent \in BOOLEAN :
          IF sent
          THEN /\ retry' = 0
               /\ is_reloaded' = FALSE
               /\ hpc' = "probe"
               /\ UNCHANGED response
          ELSE /\ hpc' = "raised"
               /\ response' = [NoResponse EXCEPT !.outcome = "raised", !.error = "Exception"]
               /\ UNCHANGED <<retry, is_reloaded>>
    /\ UNCHANGED <<dev, pc, fields, loaded, entity_table, result_dict, ent_pos,
                   lldp_consulted, results, method, request, retries, actionResults,
                   probes>>

\* a pass of the loop that does not count a probe that raises
ProbeUncounted ==
    /\ hpc = "probe"
    /\ retry < retries
    /\ \E output \in {"", "Router#", "raise"} :
          /\ probes' = Append(probes, output)
          /\ retry' = IF output = "raise" THEN retry ELSE retry + 1
          /\ IF output \in {"", "raise"}
             THEN UNCHANGED <<is_reloaded, hpc>>
             ELSE is_reloaded' = TRUE /\ hpc' = "break"
    /\ UNCHANGED <<dev, pc, fields, loaded, entity_table, result_dict, ent_pos,
                   lldp_consulted, results, method, request, retries, actionResults,
                   response>>

\* reload, one pass of `while retry < retries`: the probe gives no output
\* (continue), gives output (break), or raises (the except clause)
reload_probe ==
    /\ hpc = "probe"
    /\ retry < retries
    /\ retry' = retry + 1
    /\ \E output \in {"", "Router#", "raise"} :
          /\ probes' = Append(probes, output)
          /\ IF output \in {"", "raise"}
             THEN UNCHANGED <<is_reloaded, hpc>>
             ELSE is_reloaded' = TRUE /\ hpc' = "break"
    /\ UNCHANGED <<dev, pc, fields, loaded, entity_table, result_dict, ent_pos,
                   lldp_consulted, results, method, request, retries, actionResults,
                   response>>

\* reload, `return is_reloaded` after the break or when retry reaches retries
reload_return ==
    /\ hpc = "break" \/ (hpc = "probe" /\ ~(retry < retries))
    /\ hpc' = "returned"
    /\ response' = [NoResponse EXCEPT !.outcome = "returned",
                                      !.value = IF is_reloaded THEN "True" ELSE "False"]
    /\ UNCHANGED <<dev, pc, fields, loaded, entity_table, result_dict, ent_pos,
                   lldp_consulted, results, method, request, retries, actionResults,
                   retry, is_reloaded, probes>>

\* a handler on which apply_connectivity_changes or reload is called; no
\* discover() runs
HandlerInit ==
    /\ dev = ScenarioA
    /\ pc = "start"
    /\ exclusion_list = <<>>
    /\ _excluded_models = <<>>
    /\ module_list = <<>>
    /\ chassis_list = <<>>
    /\ port_list = <<>>
    /\ power_supply_list = <<>>
    /\ relative_path = <<>>
    /\ port_mapping = <<>>
    /\ resources = <<>>
    /\ attributes = <<>>
    /\ loaded = {}
    /\ entity_table = EmptyTable
    /\ result_dict = EmptyTable
    /\ ent_pos = 1
    /\ lldp_consulted = {}
    /\ results = <<>>
    /\ hpc = "call"
    /\ actionResults = <<>>
    /\ retry = 0
    /\ is_reloaded = FALSE
    /\ probes = <<>>
    /\ response = NoResponse
    /\ \/ method = "apply_connectivity_changes" /\ request \in Requests /\ retries = 0
       \/ /\ method = "reload"
          /\ request = [text |-> "", actions |-> <<>>]
          /\ retries \in 0..MaxRetries

HandlerNext ==
    \/ apply_connectivity_changes
    \/ reload
    \/ reload_probe
    \/ reload_return

SpecHandler == HandlerInit /\ [][HandlerNext]_vars

\* one thread runs the call: a step that can be taken is taken
SpecHandlerFair == SpecHandler /\ WF_vars(HandlerNext)

(***************************************************************************)
(* Properties of one discover() on a fresh instance (Spec) and of repeated *)
(* calls on one instance (SpecRerun).                                      *)
(***************************************************************************)

\* the outcome of the latest discover()
LastResult == results[Len(results)]

\* add_relative_paths has completed and discover() has not yet returned
AfterPaths ==
    pc \in {"chassis_attributes", "ports_attributes", "module_attributes",
            "power_ports", "port_channels", "return"}

\* the path add_relative_paths computes for a port before the collision pass
ComputedPath(port) ==
    get_relative_path(port, relative_path, module_list).v \o "/" \o _get_resource_id(port).v

\* C1: after add_relative_paths completes, any two distinct ports of port_list
\* have different addresses in relative_path
C1_PortAddressesDiffer ==
    AfterPaths =>
        \A p, q \in Range(port_list) :
            p # q => /\ {p, q} \subseteq DOMAIN relative_path
                     /\ relative_path[p] # relative_path[q]

\* C1 witness: two ports whose computed paths coincide hold their final addresses
C1_CollidingPortsAddressed ==
    /\ AfterPaths
    /\ \E p, q \in Range(port_list) :
           p # q /\ ComputedPath(p) = ComputedPath(q)
                 /\ {p, q} \subseteq DOMAIN relative_path

\* C2: after address assignment, any two distinct ids of relative_path (chassis,
\* modules and ports alike) have different addresses
C2_AllAddressesDiffer ==
    AfterPaths =>
        \A a, b \in DOMAIN relative_path : a # b => relative_path[a] # relative_path[b]

\* C3: when the loader has returned and chassis_list is empty, the next step of
\* discover() returns AutoLoadDetails with no resources and no attributes, and
\* no address is assigned and nothing is collected
C3_NoChassisReturnsEmpty ==
    [][(pc = "chassis" /\ chassis_list = <<>>) =>
          /\ pc' = "done"
          /\ results' = Append(results, AutoLoadDetails(<<>>, <<>>))
          /\ UNCHANGED <<relative_path, module_list, port_list, power_supply_list,
                         resources, attributes, exclusion_list, _excluded_models>>]_vars

\* C3 witness: discover() has returned the empty result for an inventory that has
\* rows, among them a mapped port, but no chassis
C3_ReturnedEmpty ==
    /\ pc = "done"
    /\ chassis_list = <<>>
    /\ port_list # <<>>
    /\ LastResult = AutoLoadDetails(<<>>, <<>>)
    /\ relative_path = <<>>
    /\ resources = <<>>

CannotLoadError == Raised("Cannot load entPhysicalTable. Autoload cannot continue")

\* C4: once the inventory is loaded, discover() raises the loading error exactly
\* when the loaded table has no rows, and returns the empty result exactly when
\* the loaded table has rows and no chassis
C4_FatalOutcomesDistinct ==
    (pc \in {"done", "raised"} /\ "entity_table" \in loaded) =>
        /\ entity_table.keys = <<>> <=> LastResult = CannotLoadError
        /\ (entity_table.keys # <<>> /\ chassis_list = <<>>)
               <=> LastResult = AutoLoadDetails(<<>>, <<>>)

\* C4 witness: the device answered with rows, none was kept, and discover() raised
C4_RaisedOnEmptyTable ==
    /\ pc = "raised"
    /\ dev.ent.keys # <<>>
    /\ "entity_table" \in loaded
    /\ entity_table.keys = <<>>
    /\ LastResult = CannotLoadError

\* C5: a second discover() over the same tables returns the resources and the
\* attributes the first one returned
C5_RerunSameOutput ==
    Len(results) = 2 =>
        /\ results[2].outcome = results[1].outcome
        /\ results[2].resources = results[1].resources
        /\ results[2].attributes = results[1].attributes

\* the place of a category in the order discover() appends the descriptors in
StageOf(category) ==
    CASE category = "chassis" -> 1
      [] category = "port" -> 2
      [] category = "module" -> 3
      [] category = "power_port" -> 4
      [] category = "port_channel" -> 5

\* the place of a category in the order chassis, modules, ports, power ports,
\* port-channels
ListedPlaceOf(category) ==
    CASE category = "chassis" -> 1
      [] category = "module" -> 2
      [] category = "port" -> 3
      [] category = "power_port" -> 4
      [] category = "port_channel" -> 5

Returned == pc = "done" /\ LastResult.outcome = "returned"

\* C6, as the code has it: in the resources discover() returns on a fresh
\* instance, the descriptors come in the order chassis, ports, modules, power
\* ports, port-channels
C6_StageOrder ==
    Returned =>
        \A i, j \in 1..Len(LastResult.resources) :
            i < j => StageOf(LastResult.resources[i].category)
                        <= StageOf(LastResult.resources[j].category)

\* C6, as stated: the descriptors come in the order chassis, modules, ports,
\* power ports, port-channels
C6_ListedOrder ==
    Returned =>
        \A i, j \in 1..Len(LastResult.resources) :
            i < j => ListedPlaceOf(LastResult.resources[i].category)
                        <= ListedPlaceOf(LastResult.resources[j].category)

\* C6 witness: a returned result with descriptors of all five categories
C6_AllCategoriesReturned ==
    /\ Returned
    /\ {LastResult.resources[i].category : i \in 1..Len(LastResult.resources)}
           = {"chassis", "port", "module", "power_port", "port_channel"}

\* the inventory of Scenario A: chassis 1 at "0", module 2 in it at "1", port 3 in
\* the module at "1", mapped to an interface, on a supported operating system
IsScenarioA ==
    /\ dev.ent = ScenarioA.ent
    /\ dev.alias = ScenarioA.alias
    /\ dev.if_table = ScenarioA.if_table
    /\ ValidOs(dev.sysDescr)

\* C7: on the inventory of Scenario A discover() never raises, and once the
\* addresses are assigned the chassis has "0", the module "0/1" and the port
\* "0/1/1", which are the addresses of the descriptors it returns
C7_ScenarioAAddresses ==
    IsScenarioA =>
        /\ pc # "raised"
        /\ (AfterPaths \/ pc = "done") =>
               relative_path = (1 :> "0") @@ (2 :> "0/1") @@ (3 :> "0/1/1")
        /\ pc = "done" =>
               /\ LastResult.outcome = "returned"
               /\ \A node \in {<<"chassis", "0">>, <<"module", "0/1">>, <<"port", "0/1/1">>} :
                      \E i \in 1..Len(LastResult.resources) :
                          /\ LastResult.resources[i].category = node[1]
                          /\ LastResult.resources[i].relative_address = node[2]

\* C7 witness: discover() has returned on the inventory of Scenario A
C7_ScenarioADiscovered ==
    /\ IsScenarioA
    /\ Returned
    /\ DOMAIN relative_path = {1, 2, 3}

\* the place of a port in port_list
PlaceOf(port) == CHOOSE i \in 1..Len(port_list) : port_list[i] = port

\* a path with k collision offsets added to its last segment
Offset(path, k) ==
    UpToLastSep(path, "/") \o ToStr(ToInt(LastSegment(path, "/")) + k * CollisionOffset)

\* the addresses assigned before add_relative_paths reaches the port: those of
\* the chassis, of the modules and of the ports earlier in port_list
AssignedBefore(port) ==
    {relative_path[n] : n \in {m \in DOMAIN relative_path :
                                  InList(m, port_list) => PlaceOf(m) < PlaceOf(port)}}

\* the first port of port_list that computes the path the given port computes
IsFirstWithPath(port) ==
    \A o \in Range(port_list) :
        ComputedPath(o) = ComputedPath(port) => PlaceOf(port) <= PlaceOf(o)

\* C8, as the code has it: every port's address is its computed path with the
\* least number of offsets of 1000 added to the last segment that gives an
\* address not assigned before; a port keeps its computed path only if no
\* chassis, module or earlier port already has it
C8_LeastFreeOffset ==
    AfterPaths =>
        \A q \in Range(port_list) :
            \E k \in 0..Cardinality(DOMAIN relative_path) :
                /\ relative_path[q] = Offset(ComputedPath(q), k)
                /\ relative_path[q] \notin AssignedBefore(q)
                /\ \A j \in 0..(k - 1) : Offset(ComputedPath(q), j) \in AssignedBefore(q)

\* C8, as stated: of the ports that compute one path, the first processed keeps
\* it, and a later one gets the path with the last segment raised by 1000, again
\* while the address is assigned
C8_FirstKeepsPath ==
    AfterPaths =>
        \A p, q \in Range(port_list) :
            (IsFirstWithPath(p) /\ PlaceOf(p) < PlaceOf(q)
                                /\ ComputedPath(p) = ComputedPath(q)) =>
                /\ relative_path[p] = ComputedPath(p)
                /\ \E k \in 1..Cardinality(DOMAIN relative_path) :
                       /\ relative_path[q] = Offset(ComputedPath(p), k)
                       /\ \A j \in 1..(k - 1) :
                              Offset(ComputedPath(p), j) \in AssignedBefore(q)

\* C8 witness: three ports computed one path; the first kept it, the others got
\* it with one and with two offsets
C8_OffsetRepeated ==
    /\ AfterPaths
    /\ \E p, q, r \in Range(port_list) :
           /\ ComputedPath(p) = ComputedPath(q) /\ ComputedPath(q) = ComputedPath(r)
           /\ relative_path[p] = ComputedPath(p)
           /\ relative_path[q] = Offset(ComputedPath(p), 1)
           /\ relative_path[r] = Offset(ComputedPath(p), 2)

\* the class the loader gives a row of the device's inventory
ClassOfRow(index) ==
    IF dev.ent.rows[index].entPhysicalClass = ""
    THEN InferClass(dev.ent.rows[index].entPhysicalVendorType)
    ELSE Remove(dev.ent.rows[index].entPhysicalClass, "'")

\* a word of the exclusion pattern occurs in the text, whatever the case
HasExcludedWord(text) ==
    LET lower == Lower(text)
    IN \E w \in port_exclude_pattern : Contains(lower, w)

\* the port rows whose name or description matches the exclusion pattern
ExcludedPortRows ==
    {i \in Range(dev.ent.keys) :
        /\ ClassOfRow(i) = "port"
        /\ \/ HasExcludedWord(dev.ent.rows[i].entPhysicalName)
           \/ HasExcludedWord(dev.ent.rows[i].entPhysicalDescr)}

\* C9: a port row whose name or description matches the exclusion pattern is
\* never in port_list, port_mapping or relative_path, and every port descriptor
\* collected belongs to a port of port_list
C9_ExcludedPortAbsent ==
    /\ \A i \in ExcludedPortRows :
           /\ ~InList(i, port_list)
           /\ i \notin DOMAIN port_mapping
           /\ i \notin DOMAIN relative_path
    /\ \A k \in 1..Len(resources) :
           resources[k].category = "port" =>
               \E p \in Range(port_list) :
                   /\ p \in DOMAIN relative_path
                   /\ resources[k].relative_address = relative_path[p]

\* C9 witness: discover() returned for a device with a chassis and an excluded
\* port row that is otherwise valid and is mapped to an interface of ifTable
C9_ExcludedPortSkipped ==
    /\ Returned
    /\ chassis_list # <<>>
    /\ \E i \in ExcludedPortRows :
           /\ dev.ent.rows[i].entPhysicalContainedIn # ""
           /\ ~Blacklisted(dev.ent.rows[i].entPhysicalVendorType)
           /\ InList(_get_mapping(i, dev.ent.rows[i].entPhysicalDescr), dev.if_table.keys)

\* the rows of the CDP cache whose key starts with the interface index
CdpRowsOf(if_index) ==
    {key \in Range(dev.cdp_table.keys) :
        /\ LeadingDigits(key) = ToStr(if_index)
        /\ {"cdpCacheDeviceId", "cdpCacheDevicePort"}
               \subseteq DOMAIN dev.cdp_table.rows[key]}

\* C10: once the port attributes are collected, a port whose interface index has
\* a row in the CDP cache has the adjacency "<cdpCacheDeviceId> through
\* <cdpCacheDevicePort>" of such a row, and the LLDP tables were not read for it
C10_CdpAdjacency ==
    pc \in {"module_attributes", "power_ports", "port_channels", "return"} =>
        \A p \in Range(port_list) :
            CdpRowsOf(port_mapping[p]) # {} =>
                /\ \E key \in CdpRowsOf(port_mapping[p]) :
                       InList(Attribute(relative_path[p], "Adjacent",
                                        dev.cdp_table.rows[key].cdpCacheDeviceId
                                        \o " through "
                                        \o dev.cdp_table.rows[key].cdpCacheDevicePort),
                              attributes)
                /\ port_mapping[p] \notin lldp_consulted

\* the rows of the inventory the loader's loop has been through
ProcessedRows ==
    IF pc \in {"start", "details", "if_table"} THEN {}
    ELSE IF pc = "entity" THEN {dev.ent.keys[k] : k \in 1..(ent_pos - 1)}
    ELSE Range(dev.ent.keys)

\* the rows of the inventory with an empty relative position or an empty parent id
RowsWithoutParent ==
    {i \in Range(dev.ent.keys) :
        \/ dev.ent.rows[i].entPhysicalParentRelPos = ""
        \/ dev.ent.rows[i].entPhysicalContainedIn = ""}

\* C11: a row with an empty relative position or an empty parent id is, once the
\* loader has been through it, in exclusion_list and in neither the table being
\* built nor entity_table, and it is in none of chassis_list, port_list,
\* power_supply_list and port_mapping, whatever its class
C11_RowsWithoutParentExcluded ==
    \A i \in ProcessedRows \cap RowsWithoutParent :
        /\ InList(i, exclusion_list)
        /\ ~InList(i, result_dict.keys)
        /\ ~InList(i, entity_table.keys)
        /\ ~InList(i, chassis_list)
        /\ ~InList(i, port_list)
        /\ ~InList(i, power_supply_list)
        /\ i \notin DOMAIN port_mapping

\* C11 witness: the run is over on a device with a chassis row that has no parent
\* id or no relative position, and the row is excluded
C11_ChassisWithoutParentSkipped ==
    /\ pc = "done"
    /\ \E i \in RowsWithoutParent :
           /\ ClassOfRow(i) = "chassis"
           /\ InList(i, exclusion_list)
           /\ entity_table.keys # <<>>

\* _load_snmp_tables has returned: the loader and its propagation pass are over
AfterLoader ==
    pc \in {"chassis", "lower_bay", "module_list", "relative_paths",
            "chassis_attributes", "ports_attributes", "module_attributes",
            "power_ports", "port_channels", "return", "done"}

\* the parent id of a retained row
RetainedParent(i) == ToInt(entity_table.rows[i].entPhysicalContainedIn)

\* C12: after the propagation pass, every retained row other than a chassis whose
\* parent id is not the id of a retained row is in exclusion_list
C12_OrphansExcluded ==
    AfterLoader =>
        \A i \in Range(entity_table.keys) :
            (~InList(i, chassis_list) /\ ~InList(RetainedParent(i), entity_table.keys))
                => InList(i, exclusion_list)

C17_ExclusionClosed ==
    AfterLoader =>
        \A i \in Range(entity_table.keys) :
            InList(RetainedParent(i), exclusion_list) => InList(i, exclusion_list)

\* the rows the device reports as children of a container
ReportedChildren(container) ==
    {i \in Range(dev.ent.keys) :
        dev.ent.rows[i].entPhysicalContainedIn = ToStr(container)}

\* no row of entity_table is still a child of the lower bay of a dual-bay device
RepairDone ==
    dev \in DualBays =>
        \A i \in Range(entity_table.keys) :
            RetainedParent(i) # LowerBay

C18_RepairBeforePropagation ==
    AfterLoader => RepairDone

\* C19, as the code has it: when a module or a port has an address in
\* relative_path the dual-bay repair has been made, and when the first descriptor
\* is collected every chassis, every listed module and every listed port has its
\* address; the chassis addresses are written before the repair
C19_RepairBeforeModuleAndPortAddresses ==
    /\ (\E n \in DOMAIN relative_path : ~InList(n, chassis_list)) => RepairDone
    /\ resources # <<>> =>
           Range(chassis_list) \cup Range(module_list) \cup Range(port_list)
               \subseteq DOMAIN relative_path

\* C19, as stated: when any address, a chassis address included, is in
\* relative_path the dual-bay repair has been made
C19_RepairBeforeAnyAddress ==
    relative_path # <<>> => RepairDone

\* C19 witness: a dual-bay device whose first descriptor is collected, with the
\* addresses of a chassis, two modules and two ports assigned
C19_DualBayAddressed ==
    /\ dev \in DualBays
    /\ pc = "ports_attributes"
    /\ resources # <<>>
    /\ Len(module_list) = 2 /\ Len(port_list) = 2
    /\ Cardinality(DOMAIN relative_path) = 5

\* C20: after the dual-bay repair, the position of every row moved from the lower
\* bay is greater than the position of every row the upper bay had before
C20_MovedChildrenComeLast ==
    (dev \in DualBays /\ pc \in {"module_list", "relative_paths"}) =>
        \A i \in ReportedChildren(LowerBay), j \in ReportedChildren(UpperBay) :
            ToInt(entity_table.rows[i].entPhysicalParentRelPos)
                > ToInt(dev.ent.rows[j].entPhysicalParentRelPos)

\* the interface a row of the inventory resolves to; 0 when it resolves to none
ResolvedInterface(index) == _get_mapping(index, dev.ent.rows[index].entPhysicalDescr)

\* the rows the loader has processed before the row at place j of the inventory
\* that resolve to the interface of that row
EarlierClaimants(j) ==
    {dev.ent.keys[k] : k \in 1..(j - 1)} \cap
        {i \in DOMAIN port_mapping : port_mapping[i] = ResolvedInterface(dev.ent.keys[j])}

\* C15: during and after the loader pass no two ports of port_mapping have the
\* same interface; a port row that resolves to the interface of a port mapped
\* before it is put neither in port_mapping nor in port_list, and the loader
\* goes on to the next row without an error
C15_PortMappingInjective ==
    /\ \A a, b \in DOMAIN port_mapping : port_mapping[a] = port_mapping[b] => a = b
    /\ \A j \in 1..Len(dev.ent.keys) :
           (dev.ent.keys[j] \in ProcessedRows /\ EarlierClaimants(j) # {}) =>
               /\ dev.ent.keys[j] \notin DOMAIN port_mapping
               /\ ~InList(dev.ent.keys[j], port_list)
    /\ dev \in SameInterface => pc # "raised"

\* C15 witness: the loader has read, in reverse order, two ports that resolve to
\* interface 1, and only the port read first, port 4, is mapped and listed
C15_FirstRowKeepsInterface ==
    /\ dev \in SameInterface
    /\ pc = "chassis"
    /\ dev.ent.keys[1] = 4
    /\ ResolvedInterface(3) = 1 /\ ResolvedInterface(4) = 1
    /\ DOMAIN port_mapping = {4} /\ port_mapping[4] = 1
    /\ port_list = <<4>>

\* C16: when the system description names none of the supported operating
\* systems, discover() raises before a table is read or a row of the inventory
\* is processed, and returns no result
C16_UnsupportedOsRaisesFirst ==
    (\A k \in 1..Len(supported_os) :
         ~Contains(Lower(dev.sysDescr), Lower(supported_os[k]))) =>
        /\ pc \in {"start", "raised"}
        /\ loaded = {}
        /\ ent_pos = 1 /\ result_dict = EmptyTable /\ entity_table = EmptyTable
        /\ chassis_list = <<>> /\ port_list = <<>> /\ port_mapping = <<>>
        /\ exclusion_list = <<>> /\ attributes = <<>> /\ resources = <<>>
        /\ lldp_consulted = {}
        /\ \A k \in 1..Len(results) : results[k].outcome = "raised"
        /\ pc = "raised" => results = <<Raised("Incompatible driver")>>

\* C16 witness: discover() has raised on the device that runs JUNOS
C16_RaisedOnOtherOs ==
    /\ dev = OtherOs
    /\ pc = "raised"
    /\ LastResult.error = "Incompatible driver"

\* C21: once add_relative_paths has run, every row of the entity table of class
\* chassis, module or port that is not in exclusion_list has an address in
\* relative_path
C21_RetainedRowsAddressed ==
    AfterPaths =>
        \A i \in Range(entity_table.keys) :
            (/\ entity_table.rows[i].entPhysicalClass \in {"chassis", "module", "port"}
             /\ ~InList(i, exclusion_list)) => i \in DOMAIN relative_path

\* get_module_list has run: _excluded_models is complete
AfterModuleList == pc = "relative_paths" \/ AfterPaths

\* the row's parent is a row of the entity table of class container or backplane
InContainer(i) ==
    /\ ParentOf(i) > 0 /\ InList(ParentOf(i), entity_table.keys)
    /\ ContainsAny(entity_table.rows[ParentOf(i)].entPhysicalClass,
                   {"container", "backplane"})

\* two outcomes of _get_resource_id are the same exception or the same value
SameId(a, b) == a.err = b.err /\ (a.err = "" => a.v = b.v)

\* the id a row gives to its address when the recursion goes through the parents
\* in the list `through`
IdThrough(i, through) ==
    IF InContainer(i)
    THEN Ok(entity_table.rows[ParentOf(i)].entPhysicalParentRelPos)
    ELSE IF /\ ParentOf(i) > 0 /\ InList(ParentOf(i), entity_table.keys)
            /\ InList(ParentOf(i), through)
         THEN _get_resource_id(ParentOf(i))
         ELSE Ok(entity_table.rows[i].entPhysicalParentRelPos)

\* C22, as the code has it: _get_resource_id gives the position of the parent
\* when the parent is a row of the entity table of class container or backplane;
\* else, when the parent is a row of the entity table that is in _excluded_models
\* (a module whose vendor type matches module_exclude_pattern), the id of that
\* parent; else the row's own position
C22_ResourceIdThroughExcludedModels ==
    AfterModuleList =>
        \A i \in Range(entity_table.keys) :
            SameId(_get_resource_id(i), IdThrough(i, _excluded_models))

\* C22, as stated: the recursion goes through the parents that are in
\* exclusion_list
C22_ResourceIdThroughExclusionList ==
    AfterModuleList =>
        \A i \in Range(entity_table.keys) :
            SameId(_get_resource_id(i),
                   IF InContainer(i)
                   THEN Ok(entity_table.rows[ParentOf(i)].entPhysicalParentRelPos)
                   ELSE IF InList(ParentOf(i), exclusion_list)
                        THEN _get_resource_id(ParentOf(i))
                        ELSE Ok(entity_table.rows[i].entPhysicalParentRelPos))

\* C22 witness: port 4 sits in transceiver 3 and port 6 in a transceiver inside
\* it; both take the position of transceiver 3, which differs from the position
\* of port 4, and the address of port 4 ends with it
C22_PortTakesTransceiverPosition ==
    /\ dev \in Transceivers
    /\ AfterPaths
    /\ InList(3, _excluded_models) /\ InList(5, _excluded_models)
    /\ _get_resource_id(4) = Ok(entity_table.rows[3].entPhysicalParentRelPos)
    /\ _get_resource_id(6) = Ok(entity_table.rows[3].entPhysicalParentRelPos)
    /\ entity_table.rows[3].entPhysicalParentRelPos
          # entity_table.rows[4].entPhysicalParentRelPos
    /\ 4 \in DOMAIN relative_path
    /\ LastSegment(relative_path[4], "/") = entity_table.rows[3].entPhysicalParentRelPos

\* C23: after the loader pass every row of the inventory whose vendor type holds
\* alarm, fan or sensor, in any case, is in exclusion_list and is not a row of
\* the entity table
C23_BlacklistedRowsExcluded ==
    AfterLoader =>
        \A i \in Range(dev.ent.keys) :
            ContainsAnyIgnoreCase(dev.ent.rows[i].entPhysicalVendorType,
                                  {"alarm", "fan", "sensor"}) =>
                /\ InList(i, exclusion_list)
                /\ ~InList(i, entity_table.keys)

\* the key of the first row of an address table whose ipAdEntIfIndex is the
\* interface, "" when there is none
FirstAddressOf(table, if_index) ==
    LET hits == {k \in 1..Len(table.keys) :
                    ToInt(table.rows[table.keys[k]].ipAdEntIfIndex) = if_index}
    IN IF hits = {} THEN ""
       ELSE table.keys[CHOOSE k \in hits : \A j \in hits : k <= j]

\* the values of the attribute `name` collected for a listed port
AttributeOfPort(port, name) ==
    {attributes[k].value : k \in {j \in 1..Len(attributes) :
        /\ port \in DOMAIN relative_path
        /\ attributes[j].relative_address = relative_path[port]
        /\ attributes[j].name = name}}

\* C24: the IPv4 and the IPv6 address attribute of a port is the key of the first
\* row of the address table whose interface index is the port's interface,
\* wherever the row is and whatever the size of the table, and "" when no row has
\* that index
C24_FirstMatchingAddress ==
    \A port \in Range(port_list) :
        /\ AttributeOfPort(port, "IPv4 Address")
              \subseteq {FirstAddressOf(dev.ip_v4_table, port_mapping[port])}
        /\ AttributeOfPort(port, "IPv6 Address")
              \subseteq {FirstAddressOf(dev.ip_v6_table, port_mapping[port])}

\* the interface of if_table that is an aggregation group
ChannelIndex ==
    CHOOSE k \in Range(dev.if_table.keys) : Contains(dev.if_table.rows[k].ifDescr, "channel")

\* C25: the Associated Ports attribute of the aggregation group lists the
\* descriptor of a row of the membership table exactly when the aggregation id
\* the row is attached to is the interface index of the group
C25_ExactMembersListed ==
    \A j \in 1..Len(attributes) :
        attributes[j].name = "Associated Ports" =>
            \A key \in Range(dev.port_channel_ports.keys) :
                Contains(attributes[j].value,
                         Replace(dev.if_table.rows[key].ifDescr, "/", "-"))
                    <=> ToInt(dev.port_channel_ports.rows[key].dot3adAggPortAttachedAggID)
                            = ChannelIndex

\* C26: add_relative_paths never raises: get_relative_path, _get_resource_id and
\* the collision pass return an address for every listed module and port
C26_AddressComputationNeverFails ==
    [][pc = "relative_paths" => pc' # "raised"]_vars

\* the n-th ancestor of a row of the inventory by the parent ids the device
\* reports; 0 when the chain leaves the inventory
RECURSIVE NthParent(_, _)
NthParent(i, n) ==
    IF n = 0 THEN i
    ELSE IF ~InList(i, dev.ent.keys) \/ ~IsInt(dev.ent.rows[i].entPhysicalContainedIn)
         THEN 0
         ELSE NthParent(ToInt(dev.ent.rows[i].entPhysicalContainedIn), n - 1)

\* the parent ids of the rows of the entity table form a cycle
HasParentCycle ==
    \E i \in Range(entity_table.keys) :
        \E n \in 1..Len(dev.ent.keys) :
            /\ NthParent(i, n) = i
            /\ \A m \in 1..n : InList(NthParent(i, m), entity_table.keys)

\* C27: when the parent ids of retained rows form a cycle, the cycle is detected
\* and the run fails: discover() returns no result on such an inventory
C27_CycleFailsTheRun ==
    (AfterLoader /\ HasParentCycle) =>
        \A k \in 1..Len(results) : results[k].outcome # "returned"

\* C28: when discover() reaches _get_chassis_attributes, every chassis of
\* chassis_list has an address in relative_path and none is in exclusion_list
C28_ChassisAddressedBeforeAttributes ==
    pc = "chassis_attributes" =>
        \A k \in 1..Len(chassis_list) :
            /\ chassis_list[k] \in DOMAIN relative_path
            /\ ~InList(chassis_list[k], exclusion_list)

\* C28 witness: _get_chassis_attributes is reached with two chassis whose parent
\* id 0 is not a row of the entity table
C28_TwoChassisReached ==
    /\ pc = "chassis_attributes"
    /\ Len(chassis_list) = 2
    /\ \A k \in 1..2 : dev.ent.rows[chassis_list[k]].entPhysicalContainedIn = "0"
    /\ ~InList(0, entity_table.keys)

\* the places of the setVlan and removeVlan actions of the request, in order
VlanPlaces ==
    SelectSeq([k \in 1..Len(request.actions) |-> k],
              LAMBDA k : request.actions[k].type \in {"setVlan", "removeVlan"})

\* C29: when apply_connectivity_changes returns, actionResults holds one result
\* for each setVlan and removeVlan action of the request, in the order of the
\* request, and none for another action; the result of an action for which
\* add_vlan or remove_vlan raised is unsuccessful and carries the message of the
\* exception, and the actions after it have their results too
C29_OneResultPerVlanAction ==
    (method = "apply_connectivity_changes" /\ hpc = "returned") =>
        /\ Len(actionResults) = Len(VlanPlaces)
        /\ \A j \in 1..Len(actionResults) :
              LET action == request.actions[VlanPlaces[j]]
              IN /\ actionResults[j].actionId = VlanPlaces[j]
                 /\ actionResults[j].type = action.type
                 /\ actionResults[j].success <=> action.raises = <<>>
                 /\ action.raises # <<>> =>
                        actionResults[j].errorMessage = action.raises[Len(action.raises)]

\* the state of a reload() call agrees with the probes made so far
ReloadProbing ==
    method = "reload" =>
        /\ Len(probes) <= retries
        /\ hpc \in {"probe", "break", "returned"} => retry = Len(probes)
        /\ \A k \in 1..(Len(probes) - 1) : probes[k] \in {"", "raise"}
        /\ hpc = "returned" =>
              /\ response.outcome = "returned"
              /\ response.value = "True" <=>
                    (probes # <<>> /\ probes[Len(probes)] \notin {"", "raise"})
              /\ response.value = "False" <=>
                    (Len(probes) = retries /\ \A k \in 1..Len(probes) :
                                                 probes[k] \in {"", "raise"})
        /\ (hpc = "raised" /\ response.outcome = "raised") => probes = <<>>

\* C30: once the reload command is sent, reload() probes the device at most
\* `retries` times and returns: True at the first probe that gives output, with
\* no probe after it, False when `retries` probes gave no output or raised; a
\* probe that raises counts as one retry and the call does not raise
C30_ReloadProbesAndTerminates ==
    /\ []ReloadProbing
    /\ (method = "reload" /\ hpc = "probe") ~> (hpc = "returned")

\* C30 witness: reload() has returned True after a probe that raised, a probe
\* without output and a probe with output
C30_ReloadedAtThirdProbe ==
    /\ method = "reload"
    /\ hpc = "returned"
    /\ retries = 3
    /\ probes = <<"raise", "", "Router#">>
    /\ response.value = "True"
====
